---- MODULE Spec2Model ----
(***************************************************************************)
(* napm: the package cache (src/src/napm/cache.rs).                        *)
(*                                                                         *)
(* update_cache reads one <repo>.files archive per repository from the     *)
(* sync directory and maintains two tables, package_desc and               *)
(* package_files, in an SQLite store.  info, files, find_packages_by_file  *)
(* and search read the store.                                              *)
(*                                                                         *)
(* A string is a sequence of one-character strings, so that concatenation, *)
(* prefixes, suffixes and edit distance are computed and not assumed.      *)
(***************************************************************************)
EXTENDS Integers, Sequences, FiniteSets, TLC

VARIABLES
    syncDir,        \* repo -> the archive <repo>.files of the sync directory (NoArchive: no such file)
    syncs,          \* number of times the external sync has replaced an archive
    cache_exists,   \* whether the file NAPM_CACHE_FILE exists
    schema,         \* number of statements of init_cache_schema that are committed
    db,             \* committed rows: [desc : set of rows, files : set of rows]
    pc,             \* position of the update_cache process, "idle" when none runs
    todo,           \* repositories the second read_dir loop has not visited yet
    repo,           \* the repository being updated
    already_cached, \* update_cache's already_cached set (identifiers)
    id_to_pkg,      \* update_cache's id_to_pkg map
    idx,            \* 1-based position in the archive of the running pass
    tx,             \* the open transaction: [open, desc, files], the rows as the transaction sees them
    line,           \* 1-based position in the lines of the files entry being inserted
    ret,            \* how the last operation ended
    warned,         \* identifiers update_cache has logged a warning for in this run
    parsed,         \* number of entries the running update_cache has parsed
    snap,           \* rows as they were when the current repository's update started
    prevRun,        \* [valid, rows]: the rows the run before this one left, if it returned Ok
    after_kill,     \* whether the run before this one was killed
    indexed,        \* history: per (repo, name), the files entry committed last
    config,         \* config.repos: the names of the configured repositories, in order
    answer,         \* what the last query returned
    fault,          \* what the store did to the last query: "none", "statement" or "row"
    pending,        \* the query that waits for the cache update it has spawned, if any
    call,           \* the last call of a function of the search: [fn, args, out]
    cmd,            \* the `napm update` command that runs or has run last
    eng             \* a napm process that calls the package engine, and what it meets

vars == <<syncDir, syncs, cache_exists, schema, db, pc, todo, repo, already_cached,
          id_to_pkg, idx, tx, line, ret, warned, parsed, snap, prevRun, after_kill,
          indexed, config, answer, fault, pending,
          call, cmd, eng>>

qvars == <<config, answer, fault, pending, call, cmd, eng>>

----------------------------------------------------------------------------
(* Bounds *)

MaxSyncs == 1

----------------------------------------------------------------------------
(* Strings *)

\* Option<T>: NoneVal or Some(v)
NoneVal == <<>>
Some(v) == <<v>>
IsSome(o) == Len(o) = 1
Unwrap(o) == o[1]

Dash == <<"-">>
Slash == <<"/">>

TagNAME == <<"%", "N", "A", "M", "E", "%">>
TagVERSION == <<"%", "V", "E", "R", "S", "I", "O", "N", "%">>
TagDESC == <<"%", "D", "E", "S", "C", "%">>
TagFILES == <<"%", "F", "I", "L", "E", "S", "%">>

\* name || '-' || version
Ident(name, version) == name \o Dash \o version

\* char::is_alphanumeric and the lowercase of a letter, for the characters in use
UpperLetters ==
    <<"A", "B", "C", "D", "E", "F", "G", "H", "I", "J", "K", "L", "M",
      "N", "O", "P", "Q", "R", "S", "T", "U", "V", "W", "X", "Y", "Z">>
LowerLetters ==
    <<"a", "b", "c", "d", "e", "f", "g", "h", "i", "j", "k", "l", "m",
      "n", "o", "p", "q", "r", "s", "t", "u", "v", "w", "x", "y", "z">>
Digits == {"0", "1", "2", "3", "4", "5", "6", "7", "8", "9"}
Letter == 1..26

\* letters that take two bytes in UTF-8; they are lowercase
WideLetters == {"é", "è"}

IsAlphanumeric(c) ==
    \/ c \in Digits
    \/ c \in WideLetters
    \/ \E i \in Letter : c = UpperLetters[i] \/ c = LowerLetters[i]

LowerChar(c) ==
    IF \E i \in Letter : c = UpperLetters[i]
    THEN LowerLetters[CHOOSE i \in Letter : c = UpperLetters[i]]
    ELSE c

\* str::to_lowercase, SQL LOWER
Lower(s) == [i \in 1..Len(s) |-> LowerChar(s[i])]

\* str::contains
Contains(s, sub) ==
    \E i \in 1..(Len(s) - Len(sub) + 1) : SubSeq(s, i, i + Len(sub) - 1) = sub

\* str::ends_with
EndsWith(s, suffix) ==
    /\ Len(suffix) <= Len(s)
    /\ SubSeq(s, Len(s) - Len(suffix) + 1, Len(s)) = suffix

\* SQL LIKE: % matches any run of characters, _ any one character, and letters
\* match without regard to case
RECURSIVE Like(_, _)
Like(text, pat) ==
    IF pat = <<>> THEN text = <<>>
    ELSE IF Head(pat) = "%"
         THEN \E k \in 0..Len(text) : Like(SubSeq(text, k + 1, Len(text)), Tail(pat))
    ELSE /\ text # <<>>
         /\ Head(pat) = "_" \/ LowerChar(Head(pat)) = LowerChar(Head(text))
         /\ Like(Tail(text), Tail(pat))

\* tokenize: split at every character that is not alphanumeric, drop the empty
\* pieces, lowercase the others
RECURSIVE TokenizeFrom(_, _, _)
TokenizeFrom(s, i, word) ==
    IF i > Len(s) THEN (IF word = <<>> THEN <<>> ELSE <<Lower(word)>>)
    ELSE IF IsAlphanumeric(s[i]) THEN TokenizeFrom(s, i + 1, Append(word, s[i]))
    ELSE (IF word = <<>> THEN <<>> ELSE <<Lower(word)>>) \o TokenizeFrom(s, i + 1, <<>>)

Tokenize(s) == TokenizeFrom(s, 1, <<>>)

\* [String]::join(" ")
RECURSIVE JoinSpace(_)
JoinSpace(terms) ==
    IF terms = <<>> THEN <<>>
    ELSE IF Len(terms) = 1 THEN terms[1]
    ELSE terms[1] \o <<" ">> \o JoinSpace(Tail(terms))

Min(a, b) == IF a <= b THEN a ELSE b
AbsDiff(a, b) == IF a <= b THEN b - a ELSE a - b

\* str::len: the length in bytes
RECURSIVE ByteLen(_)
ByteLen(s) ==
    IF s = <<>> THEN 0
    ELSE (IF Head(s) \in WideLetters THEN 2 ELSE 1) + ByteLen(Tail(s))

\* the inner loop of levenshtein_cutoff: curr[j + 1] for the characters of b from
\* the j-th on, prev and curr being vectors of b.len() + 1 entries
RECURSIVE LevRow(_, _, _, _, _)
LevRow(prev, curr, ca, b, j) ==
    IF j > Len(b) THEN curr
    ELSE LET cost == IF ca = b[j] THEN 0 ELSE 1
             v == Min(Min(prev[j + 1] + 1, curr[j] + 1), prev[j] + cost)
         IN  LevRow(prev, [curr EXCEPT ![j + 1] = v], ca, b, j + 1)

RowMin(row) == CHOOSE m \in {row[k] : k \in 1..Len(row)} :
                   \A k \in 1..Len(row) : m <= row[k]

\* the outer loop from the i-th character of a on; rows counts the rows filled
RECURSIVE LevRows(_, _, _, _, _, _)
LevRows(a, b, i, prev, curr, max_dist) ==
    IF i > Len(a)
    THEN [out |-> IF prev[ByteLen(b) + 1] <= max_dist
                  THEN Some(prev[ByteLen(b) + 1]) ELSE NoneVal,
          rows |-> i - 1]
    ELSE LET row == LevRow(prev, [curr EXCEPT ![1] = i], a[i], b, 1)
         IN  IF RowMin(SubSeq(row, 1, Len(b) + 1)) > max_dist
             THEN [out |-> NoneVal, rows |-> i]
             ELSE LevRows(a, b, i + 1, row, prev, max_dist)

\* levenshtein_cutoff with the number of rows it has filled
LevRun(a, b, max_dist) ==
    IF AbsDiff(ByteLen(a), ByteLen(b)) > max_dist THEN [out |-> NoneVal, rows |-> 0]
    ELSE LevRows(a, b, 1, [j \in 1..(ByteLen(b) + 1) |-> j - 1],
                 [j \in 1..(ByteLen(b) + 1) |-> 0], max_dist)

levenshtein_cutoff(a, b, max_dist) == LevRun(a, b, max_dist).out

----------------------------------------------------------------------------
(* Archives: the input of update_cache *)

\* An archive is [readable, entries]; an entry is [id, kind, lines], where id is the
\* first component of the entry's path (the package directory), kind the second
\* ("desc", "files"), and lines the entry's content split by str::lines.  An entry
\* of kind "corrupt" stands for a place where the tar iterator yields an error.
DescEntry(id, lines) == [id |-> id, kind |-> "desc", lines |-> lines]
FilesEntry(id, lines) == [id |-> id, kind |-> "files", lines |-> lines]
CorruptEntry == [id |-> <<>>, kind |-> "corrupt", lines |-> <<>>]
Archive(entries) == [present |-> TRUE, readable |-> TRUE, entries |-> entries]
Unreadable == [present |-> TRUE, readable |-> FALSE, entries |-> <<>>]
NoArchive == [present |-> FALSE, readable |-> FALSE, entries |-> <<>>]

\* The text of a desc entry as repo-add writes it: blocks separated by blank lines.
DescText(name, version, desc) ==
    <<TagNAME, name, <<>>, TagVERSION, version, <<>>, TagDESC, desc, <<>>>>

\* The text of a files entry: the header line, then one path per line.
FilesText(paths) == <<TagFILES>> \o paths

wex == <<"w", "e", "x">>
gui == <<"g", "u", "i">>
guix == <<"g", "u", "i", "x">>
web == <<"w", "e", "b">>
v1 == <<"1">>
v2 == <<"2">>
dX == <<"x">>
pDir == <<"b", "/">>
pBin == <<"b", "/", "w">>
pC == <<"c">>

\* wex 1 and wex 2, each with its desc and its files entry
Wex1 == <<DescEntry(Ident(wex, v1), DescText(wex, v1, dX)),
          FilesEntry(Ident(wex, v1), FilesText(<<pDir, pBin>>))>>
Wex2 == <<DescEntry(Ident(wex, v2), DescText(wex, v2, web)),
          FilesEntry(Ident(wex, v2), FilesText(<<pBin, pC>>))>>
\* two directories that declare the same NAME, files entries in the other order
TwoWex == <<Wex1[1], Wex2[1], Wex2[2], Wex1[2]>>
\* a files entry with no desc entry, then a desc entry with no files entry
Orphan == <<FilesEntry(Ident(web, v1), FilesText(<<pC>>)),
            DescEntry(Ident(wex, v1), DescText(wex, v1, dX))>>
\* the same path twice in one files entry
DupLine == <<Wex1[1], FilesEntry(Ident(wex, v1), FilesText(<<pC, pC>>))>>
\* a desc entry with no %NAME% block
NoName == <<DescEntry(Ident(wex, v1), <<TagVERSION, v1>>), Wex1[2]>>
\* a directory whose name is not name-version of its desc
OddDir == <<DescEntry(web, DescText(wex, v1, dX)), FilesEntry(web, FilesText(<<pC>>))>>
\* the compressed stream breaks after the first entry
Broken == <<Wex1[1], CorruptEntry>>
\* a files entry with a blank line and a second block after its paths
TagBACKUP == <<"%", "B", "A", "C", "K", "U", "P", "%">>
Tagged == <<Wex1[1], FilesEntry(Ident(wex, v1), <<TagFILES, pBin, <<>>, TagBACKUP, pC>>)>>

\* another package in place of wex
Guix1 == <<DescEntry(Ident(guix, v1), DescText(guix, v1, dX)),
           FilesEntry(Ident(guix, v1), FilesText(<<pC>>))>>

\* the archives the first repository's file is drawn from
Archives ==
    {Archive(Wex1), Archive(Wex2), Archive(TwoWex), Archive(Orphan), Archive(DupLine),
     Archive(NoName), Archive(OddDir), Archive(Broken), Archive(Tagged), Unreadable,
     NoArchive}

\* the archives the second repository's file is drawn from
OtherArchives == {Archive(Wex2), Unreadable, NoArchive}

\* the archives an external sync leaves in place of an older one
SyncedArchives == {Archive(Wex1), Archive(Wex2), Archive(Guix1), NoArchive}

RepoA == <<"A">>
RepoB == <<"B">>

\* the repositories that have a file in the sync directory
Repos == {RepoA, RepoB}

----------------------------------------------------------------------------
(* The store *)

EmptyRows == [desc |-> {}, files |-> {}]
NoTx == [open |-> FALSE, desc |-> {}, files |-> {}]

DescRow(r, name, version, desc, done) ==
    [repo |-> r, name |-> name, version |-> version, desc |-> desc, files_done |-> done]
FileRow(r, name, path) == [repo |-> r, name |-> name, path |-> path]

\* the statement replaces the whole table by the row
UpsertDescAlone(rows, row) == {row}

\* a plain INSERT on a table without the UNIQUE constraint
InsertDesc(rows, row) == rows \cup {row}

\* INSERT OR REPLACE INTO package_desc: UNIQUE (repo, name) removes the row in conflict
UpsertDesc(rows, row) ==
    {d \in rows : ~(d.repo = row.repo /\ d.name = row.name)} \cup {row}

\* the statement deletes the file rows of every package of the repository
DeleteRepoFiles(rows, r, name) == {f \in rows : f.repo # r}

\* DELETE FROM package_files WHERE repo = ?1 AND name = ?2
DeleteFiles(rows, r, name) == {f \in rows : ~(f.repo = r /\ f.name = name)}

\* INSERT INTO package_files fails on UNIQUE (repo, name, path)
InsertFileFails(rows, row) == row \in rows

\* UPDATE package_desc SET files_done = true WHERE repo = ?1 AND name = ?2
MarkDone(rows, r, name) ==
    {IF d.repo = r /\ d.name = name THEN [d EXCEPT !.files_done = TRUE] ELSE d : d \in rows}

\* the query selects nothing
SelectNothing(rows, r) == {}

\* SELECT name || '-' || version FROM package_desc WHERE repo = ?1 AND files_done
SelectCached(rows, r) ==
    {Ident(d.name, d.version) : d \in {x \in rows : x.repo = r /\ x.files_done}}

HasDescTable == schema >= 1
HasFilesTable == schema >= 2
SchemaStatements == 5

----------------------------------------------------------------------------
(* Parsing *)

\* the loop over the lines of a desc entry: a tag line takes the next line as value
RECURSIVE ParseDescFrom(_, _, _)
ParseDescFrom(lines, i, acc) ==
    IF i > Len(lines) THEN acc
    ELSE LET val == IF i + 1 <= Len(lines) THEN Some(lines[i + 1]) ELSE NoneVal
         IN  IF lines[i] = TagNAME THEN ParseDescFrom(lines, i + 2, [acc EXCEPT !.name = val])
             ELSE IF lines[i] = TagVERSION
                  THEN ParseDescFrom(lines, i + 2, [acc EXCEPT !.version = val])
             ELSE IF lines[i] = TagDESC
                  THEN ParseDescFrom(lines, i + 2, [acc EXCEPT !.desc = val])
             ELSE ParseDescFrom(lines, i + 1, acc)

\* a desc entry without %NAME% parses to the empty name
ParseDescBlankName(lines) ==
    ParseDescFrom(lines, 1, [name |-> Some(<<>>), version |-> NoneVal, desc |-> NoneVal])

\* lines 238-250: the tags of a desc entry and the line after each
ParseDesc(lines) ==
    ParseDescFrom(lines, 1, [name |-> NoneVal, version |-> NoneVal, desc |-> NoneVal])

----------------------------------------------------------------------------
(* update_cache *)

NoRepo == <<"-">>
EmptyMap == [i \in {} |-> <<>>]
Put(m, k, v) == [i \in DOMAIN m \cup {k} |-> IF i = k THEN v ELSE m[i]]

\* the map is carried over from the repository processed before
KeptMap(m) == m

\* line 226: let mut id_to_pkg = HashMap::new(), inside the loop over the archives
FreshMap(m) == EmptyMap

Entries == syncDir[repo].entries
Entry == Entries[idx]

\* the row is written as already indexed
NewDescRowDone(r, p) ==
    DescRow(r, Unwrap(p.name), Unwrap(p.version),
            IF IsSome(p.desc) THEN Unwrap(p.desc) ELSE <<>>, TRUE)

\* the row pass 1 writes for a parsed desc entry
NewDescRow(r, p) ==
    DescRow(r, Unwrap(p.name), Unwrap(p.version),
            IF IsSome(p.desc) THEN Unwrap(p.desc) ELSE <<>>, FALSE)

\* the statements were run outside a transaction: each one is kept
KeepWrites(committed, t) ==
    IF t.open THEN [desc |-> t.desc, files |-> t.files] ELSE committed

\* what the store holds once a transaction is dropped without commit
Rollback(committed, t) == committed

\* what the store holds once a transaction commits
Commit(committed, t) == [desc |-> t.desc, files |-> t.files]

\* the paths a files entry lists: contents.lines().skip(1)
PathsOf(lines) == {lines[i] : i \in 2..Len(lines)}

\* the desc entry of a package directory, parsed
DirDesc(entries, id) ==
    ParseDesc(entries[CHOOSE i \in 1..Len(entries) :
                        entries[i].kind = "desc" /\ entries[i].id = id].lines)

\* the directories of an archive whose desc entry declares this NAME
DirsNamed(entries, name) ==
    {entries[i].id : i \in {j \in 1..Len(entries) :
        entries[j].kind = "desc" /\ ParseDesc(entries[j].lines).name = Some(name)}}

\* history of a committed files entry: its directory's version, its paths, and
\* whether its directory is the only one of the archive that declares the name
Source(entries, e) ==
    [version |-> DirDesc(entries, e.id).version,
     paths |-> PathsOf(e.lines),
     single |-> Cardinality(DirsNamed(entries, Unwrap(DirDesc(entries, e.id).name))) = 1]

\* the process is gone: nothing of its memory is left
Forget ==
    /\ todo' = {}
    /\ repo' = NoRepo
    /\ already_cached' = {}
    /\ id_to_pkg' = EmptyMap
    /\ idx' = 0
    /\ line' = 0
    /\ tx' = NoTx
    /\ warned' = {}
    /\ parsed' = 0
    /\ snap' = EmptyRows

\* update_cache returns Err(e); an open transaction is dropped, which rolls it back
Fail(e) ==
    /\ pc' = "idle"
    /\ ret' = e
    /\ db' = Rollback(db, tx)
    /\ prevRun' = [valid |-> FALSE, rows |-> EmptyRows]
    /\ Forget
    /\ UNCHANGED <<qvars, syncDir, syncs, cache_exists, schema, after_kill, indexed>>

\* the process ends without returning: the store recovers to its last commit
Abort(how) ==
    /\ pc' = "idle"
    /\ ret' = how
    /\ db' = Rollback(db, tx)
    /\ prevRun' = [valid |-> FALSE, rows |-> EmptyRows]
    /\ Forget
    /\ UNCHANGED <<qvars, syncDir, syncs, cache_exists, schema, after_kill, indexed>>

\* lines 163-173: needs_init, Connection::open (which creates the file)
OpenStore ==
    /\ pc = "idle"
    /\ cache_exists' = TRUE
    /\ pc' = IF ~cache_exists THEN "schema" ELSE "count"
    /\ ret' = "running"
    /\ after_kill' = (ret = "killed")
    /\ UNCHANGED <<syncDir, syncs, schema, db, todo, repo, already_cached, id_to_pkg,
                   idx, tx, line, warned, parsed, snap, prevRun, indexed>>

\* update_cache is called
StartUpdate == OpenStore /\ UNCHANGED qvars

\* one statement of init_cache_schema, each its own commit
InitSchemaStep ==
    /\ pc = "schema"
    /\ schema' = schema + 1
    /\ pc' = IF schema + 1 = SchemaStatements THEN "count" ELSE "schema"
    /\ UNCHANGED <<qvars, syncDir, syncs, cache_exists, db, todo, repo, already_cached, id_to_pkg,
                   idx, tx, line, ret, warned, parsed, snap, prevRun, after_kill, indexed>>

\* lines 180-192: the first read_dir loop counts the entries of every archive
CountArchives ==
    /\ pc = "count"
    /\ IF \E r \in Repos : syncDir[r].present /\ ~syncDir[r].readable
       THEN Fail("OpenArchive")
       ELSE /\ pc' = "repos"
            /\ todo' = {r \in Repos : syncDir[r].present}
            /\ UNCHANGED <<qvars, syncDir, syncs, cache_exists, schema, db, repo, already_cached,
                           id_to_pkg, idx, tx, line, ret, warned, parsed, snap, prevRun,
                           after_kill, indexed>>

\* lines 205-226: the second loop takes the next archive and selects already_cached
NextRepo ==
    /\ pc = "repos"
    /\ \E r \in todo :
         IF ~HasDescTable
         THEN Fail("CacheDatabaseError")
         ELSE /\ repo' = r
              /\ todo' = todo \ {r}
              /\ already_cached' = SelectCached(db.desc, r)
              /\ id_to_pkg' = FreshMap(id_to_pkg)
              /\ idx' = 1
              /\ pc' = "pass1"
              /\ snap' = db
              /\ UNCHANGED <<qvars, syncDir, syncs, cache_exists, schema, db, tx, line, ret, warned,
                             parsed, prevRun, after_kill, indexed>>

\* lines 310-319: no archive is left, update_cache returns Ok
Finish ==
    /\ pc = "repos"
    /\ todo = {}
    /\ pc' = "idle"
    /\ ret' = "Ok"
    /\ prevRun' = [valid |-> TRUE, rows |-> db]
    /\ Forget
    /\ UNCHANGED <<qvars, syncDir, syncs, cache_exists, schema, db, after_kill, indexed>>

Advance ==
    /\ idx' = idx + 1
    /\ UNCHANGED <<qvars, syncDir, syncs, cache_exists, schema, pc, todo, repo, already_cached,
                   tx, line, ret, snap, prevRun, after_kill, indexed>>

\* the entry is skipped whatever already_cached holds
SkipsOtherKind(kind) == Entry.kind # kind

\* lines 230 and 272: the entry is of the other kind, or its identifier is cached
Skips(kind) == Entry.kind # kind \/ Entry.id \in already_cached

\* lines 228-268: the closure of pass 1 on the next entry of the archive
Pass1Entry ==
    /\ pc = "pass1"
    /\ idx <= Len(Entries)
    /\ IF Entry.kind = "corrupt" THEN Fail("ExtractArchive")
       ELSE IF Skips("desc")
       THEN Advance /\ UNCHANGED <<db, id_to_pkg, warned, parsed>>
       ELSE LET p == ParseDesc(Entry.lines)
            IN  IF ~IsSome(p.name) \/ ~IsSome(p.version) THEN Abort("panic")
                ELSE /\ id_to_pkg' = Put(id_to_pkg, Entry.id, Unwrap(p.name))
                     /\ db' = [db EXCEPT !.desc = UpsertDesc(@, NewDescRow(repo, p))]
                     /\ parsed' = parsed + 1
                     /\ Advance /\ UNCHANGED warned

\* the pass is left at any entry
ArchiveReadAnytime == TRUE

\* lines 132-142: the loop over archive.entries() has visited every entry
ArchiveRead == idx > Len(Entries)

\* lines 228-270: process_archive returns Ok for pass 1, pass 2 is started
EndPass1 ==
    /\ pc = "pass1"
    /\ ArchiveRead
    /\ pc' = "pass2"
    /\ idx' = 1
    /\ UNCHANGED <<qvars, syncDir, syncs, cache_exists, schema, db, todo, repo, already_cached,
                   id_to_pkg, tx, line, ret, warned, parsed, snap, prevRun, after_kill, indexed>>

\* the missing descriptor ends the update
NoDescriptorFails == Fail("ExtractArchive")

\* lines 302-306: a files entry whose identifier pass 1 has not recorded
NoDescriptor ==
    /\ warned' = warned \cup {Entry.id}
    /\ Advance /\ UNCHANGED <<db, id_to_pkg, parsed>>

\* lines 270-282: the closure of pass 2 on the next entry, up to the DELETE
Pass2Entry ==
    /\ pc = "pass2"
    /\ idx <= Len(Entries)
    /\ IF Entry.kind = "corrupt" THEN Fail("ExtractArchive")
       ELSE IF Skips("files")
       THEN Advance /\ UNCHANGED <<db, id_to_pkg, warned, parsed>>
       ELSE IF Entry.id \notin DOMAIN id_to_pkg THEN NoDescriptor
       ELSE IF ~HasFilesTable THEN Fail("CacheDatabaseError")
       ELSE /\ tx' = [open |-> TRUE, desc |-> db.desc,
                      files |-> DeleteFiles(db.files, repo, id_to_pkg[Entry.id])]
            /\ line' = 2
            /\ pc' = "insert"
            /\ parsed' = parsed + 1
            /\ UNCHANGED <<qvars, syncDir, syncs, cache_exists, schema, db, todo, repo,
                           already_cached, id_to_pkg, idx, ret, warned, snap, prevRun,
                           after_kill, indexed>>

\* lines 289-294: one INSERT of the loop over contents.lines().skip(1)
TxInsert ==
    /\ pc = "insert"
    /\ line <= Len(Entry.lines)
    /\ LET row == FileRow(repo, id_to_pkg[Entry.id], Entry.lines[line])
       IN  IF InsertFileFails(tx.files, row) THEN Fail("CacheDatabaseError")
           ELSE /\ tx' = [tx EXCEPT !.files = @ \cup {row}]
                /\ line' = line + 1
                /\ UNCHANGED <<qvars, syncDir, syncs, cache_exists, schema, db, pc, todo, repo,
                               already_cached, id_to_pkg, idx, ret, warned, parsed, snap,
                               prevRun, after_kill, indexed>>

\* lines 296-299: the UPDATE inside the transaction
TxMarkDone ==
    /\ pc = "insert"
    /\ line > Len(Entry.lines)
    /\ tx' = [tx EXCEPT !.desc = MarkDone(@, repo, id_to_pkg[Entry.id])]
    /\ pc' = "commit"
    /\ UNCHANGED <<qvars, syncDir, syncs, cache_exists, schema, db, todo, repo, already_cached,
                   id_to_pkg, idx, line, ret, warned, parsed, snap, prevRun, after_kill, indexed>>

\* line 301: tx.commit()
TxCommit ==
    /\ pc = "commit"
    /\ db' = Commit(db, tx)
    /\ tx' = NoTx
    /\ pc' = "pass2"
    /\ idx' = idx + 1
    /\ line' = 0
    /\ indexed' = Put(indexed, <<repo, id_to_pkg[Entry.id]>>, Source(Entries, Entry))
    /\ UNCHANGED <<qvars, syncDir, syncs, cache_exists, schema, todo, repo, already_cached,
                   id_to_pkg, ret, warned, parsed, snap, prevRun, after_kill>>

EndPass2 ==
    /\ pc = "pass2"
    /\ ArchiveRead
    /\ pc' = "repos"
    /\ UNCHANGED <<qvars, syncDir, syncs, cache_exists, schema, db, todo, repo, already_cached,
                   id_to_pkg, idx, tx, line, ret, warned, parsed, snap, prevRun, after_kill, indexed>>

\* the process is killed
Kill ==
    /\ pc # "idle"
    /\ Abort("killed")

\* the external sync replaces, adds or removes one archive of the sync directory
EnvSync ==
    /\ pc = "idle"
    /\ syncs < MaxSyncs
    /\ \E r \in Repos, a \in SyncedArchives :
         /\ a # syncDir[r]
         /\ syncDir' = [syncDir EXCEPT ![r] = a]
    /\ syncs' = syncs + 1
    /\ ret' = "synced"
    /\ prevRun' = [valid |-> FALSE, rows |-> EmptyRows]
    /\ UNCHANGED <<qvars, cache_exists, schema, db, pc, todo, repo, already_cached, id_to_pkg,
                   idx, tx, line, warned, parsed, snap, after_kill, indexed>>

----------------------------------------------------------------------------
(* The queries: info, files, find_packages_by_file, search *)

Pkg(name, version, repository, desc) ==
    [name |-> name, version |-> version, repo |-> repository, desc |-> desc]

\* the row closures of find_packages_by_file and select_candidates, which select
\* name, version, desc, repo and read them in that order
RowPkg(d) == Pkg(d.name, d.version, d.repo, d.desc)

\* the row closure of info, which selects name, version, repo, desc and reads
\* column 2 as desc and column 3 as repo
InfoPkg(d) == Pkg(d.name, d.version, d.desc, d.repo)

\* a call of a query: its name and its arguments
Query(op, arg, flag) == [op |-> op, arg |-> arg, flag |-> flag]
NoQuery == Query("none", <<>>, FALSE)

NoCall == [fn |-> "none", args |-> <<>>, out |-> <<>>]

\* no `napm update` has been run
NoCommand ==
    [at |-> "none", no_file_cache |-> FALSE, db |-> FALSE, files |-> FALSE, out |-> "none"]

\* no process that calls the package engine has been started.  root: the
\* effective user is root; pe: a privilege-escalation program is installed;
\* pgrep: pgrep can be run; lock: the engine's lock file exists; others: a napm
\* process other than this one runs; pacman: a pacman process runs; names: the
\* package names of the command line; given: the packages handed to the action;
\* stage, calls, first, repair: where the running wrapper of an engine
\* operation stands, how often it has called the engine, what the first call
\* and on_alpm_error returned; trans: trans_init has been called
NoEngine ==
    [cmd |-> "none", at |-> "none", root |-> FALSE, pe |-> FALSE, pgrep |-> FALSE,
     lock |-> FALSE, others |-> FALSE, pacman |-> FALSE, flag |-> FALSE,
     names |-> <<>>, given |-> <<>>, asked |-> "none", execs |-> 0,
     stage |-> "none", calls |-> 0, repairs |-> 0, first |-> "none", repair |-> "none",
     trans |-> FALSE, out |-> "none"]

NoAnswer ==
    [op |-> "none", arg |-> <<>>, flag |-> FALSE, err |-> "none",
     pkgs |-> {}, paths |-> {}, pairs |-> {}, expanded |-> {}, selected |-> <<>>,
     ranked |-> <<>>, waited |-> FALSE]

UnlistedPriority == 1000

\* repo_priority: CASE repo WHEN 'r0' THEN 0 WHEN 'r1' THEN 1 ... ELSE 1000 END
Priority(r) ==
    IF \E i \in 1..Len(config) : config[i] = r
    THEN (CHOOSE i \in 1..Len(config) :
              config[i] = r /\ \A j \in 1..(i - 1) : config[j] # r) - 1
    ELSE UnlistedPriority

\* SELECT repo FROM rows WHERE name = ?1 ORDER BY priority LIMIT 1: the repositories
\* the subquery may yield.  SQL leaves the order of rows of equal priority open, so
\* each of them may come first.
ResolveRepos(rows, name) ==
    LET held == {d.repo : d \in {x \in rows : x.name = name}}
    IN  {r \in held : \A o \in held : Priority(r) <= Priority(o)}

\* one evaluation of the correlated subquery per name
Picks(rows) ==
    LET names == {d.name : d \in rows}
    IN  {f \in [names -> {d.repo : d \in rows}] :
            \A n \in names : f[n] \in ResolveRepos(rows, n)}

\* pkg_exists
pkg_exists(pkg_name) == \E d \in db.desc : d.name = pkg_name

\* the statements of the query delete the rows of the store
QueryErases(rows) == EmptyRows

\* the rows of the store after a query: every statement that info, files,
\* find_packages_by_file, select_candidates and expand_query_words prepare is a SELECT
AfterQuery(rows) == rows

\* the query returns a, the store having behaved as f says
Reply(f, a) ==
    /\ answer' = a
    /\ fault' = f
    /\ pending' = NoQuery
    /\ db' = AfterQuery(db)
    /\ UNCHANGED <<syncDir, syncs, cache_exists, schema, pc, todo, repo,
                   already_cached, id_to_pkg, idx, tx, line, ret, warned, parsed, snap,
                   prevRun, after_kill, indexed, config, call, cmd, eng>>

\* the query returns, the store having behaved as f says
AnsweredUnder(f, op, arg, flag, err, pkgs, paths, pairs) ==
    Reply(f, [op |-> op, arg |-> arg, flag |-> flag, err |-> err,
              pkgs |-> pkgs, paths |-> paths, pairs |-> pairs, expanded |-> {},
              selected |-> <<>>, ranked |-> <<>>, waited |-> pending # NoQuery])

\* search returns the sorted vector; ranked keeps the score next to each package,
\* selected the vector select_candidates returned and expanded the terms
\* expand_query_words returned
RankedUnder(f, search_terms, expanded, selected, ranked) ==
    Reply(f, [op |-> "search", arg |-> search_terms, flag |-> FALSE, err |-> "Ok",
              pkgs |-> {ranked[i].pkg : i \in 1..Len(ranked)}, paths |-> {},
              pairs |-> {}, expanded |-> expanded, selected |-> selected,
              ranked |-> ranked, waited |-> pending # NoQuery])

\* the query returns, the store having answered every statement and every row
Answered(op, arg, flag, err, pkgs, paths, pairs) ==
    AnsweredUnder("none", op, arg, flag, err, pkgs, paths, pairs)

\* require_cache: the store file is there; a query opens its own connection, whether
\* an update_cache is running or not
CanQuery == cache_exists

\* the rows of info's statement once its subquery has yielded r
InfoRows(pkg_name, r) ==
    {InfoPkg(d) : d \in {x \in db.desc : x.name = pkg_name /\ x.repo = r}}

\* info(pkg_name)
Info(pkg_name) ==
    /\ CanQuery
    /\ IF ~HasDescTable
       THEN Answered("info", <<pkg_name>>, FALSE, "CacheDatabaseError", {}, {}, {})
       ELSE IF ResolveRepos(db.desc, pkg_name) = {}
       THEN Answered("info", <<pkg_name>>, FALSE, "PackageNotFound", {}, {}, {})
       ELSE \E r \in ResolveRepos(db.desc, pkg_name) :
              Answered("info", <<pkg_name>>, FALSE, "Ok",
                       InfoRows(pkg_name, r), {}, {})

\* no stored path is taken for a directory
IsDirectoryNever(path) == FALSE

\* path NOT LIKE '%/'
IsDirectory(path) == Like(path, <<"%", "/">>)

\* the rows of files' statement once its subquery has yielded r
FilesRows(pkg_name, with_dirs, r) ==
    {Slash \o f.path : f \in {x \in db.files :
        /\ x.name = pkg_name /\ x.repo = r
        /\ with_dirs \/ ~IsDirectory(x.path)}}

\* files(pkg_name, with_dirs)
Files(pkg_name, with_dirs) ==
    /\ CanQuery
    /\ IF ~HasDescTable \/ ~HasFilesTable
       THEN Answered("files", <<pkg_name>>, with_dirs, "CacheDatabaseError", {}, {}, {})
       ELSE IF ~pkg_exists(pkg_name)
       THEN Answered("files", <<pkg_name>>, with_dirs, "PackageNotFound", {}, {}, {})
       ELSE \E r \in ResolveRepos(db.desc, pkg_name) :
              Answered("files", <<pkg_name>>, with_dirs, "Ok", {},
                       FilesRows(pkg_name, with_dirs, r), {})

\* '/' || f.path = ?1, or '/' || f.path LIKE '%' || ?1
PathMatches(stored, path, exact) ==
    IF exact THEN Slash \o stored = path
    ELSE Like(Slash \o stored, <<"%">> \o path)

\* the rows of the join of find_packages_by_file
FindRows(path, exact, pick) ==
    {<<RowPkg(d), Slash \o f.path>> :
        <<d, f>> \in {x \in db.desc \X db.files :
            /\ x[2].name = x[1].name /\ x[2].repo = x[1].repo
            /\ PathMatches(x[2].path, path, exact)
            /\ x[1].repo = pick[x[1].name]}}

\* find_packages_by_file(path, exact)
FindPackagesByFile(path, exact) ==
    /\ CanQuery
    /\ IF ~HasDescTable \/ ~HasFilesTable
       THEN Answered("find", <<path>>, exact, "CacheDatabaseError", {}, {}, {})
       ELSE \E pick \in Picks(db.desc) :
              Answered("find", <<path>>, exact, "Ok", {}, {}, FindRows(path, exact, pick))

MAX_DISTANCE == 2
MAX_LEN_DIFF == 2

SeqSet(q) == {q[i] : i \in 1..Len(q)}

\* expand_query_words
expand_query_words(query_words) ==
    SeqSet(query_words) \cup
    {w \in {Lower(d.name) : d \in db.desc} :
        \E q \in SeqSet(query_words) :
            /\ AbsDiff(ByteLen(w), ByteLen(q)) <= MAX_LEN_DIFF
            /\ IsSome(levenshtein_cutoff(w, q, MAX_DISTANCE))}

\* the rows of the CTE matched: LOWER(name) LIKE '%q%' OR LOWER(desc) LIKE '%q%'
Matched(expanded) ==
    {d \in db.desc :
        \E q \in expanded :
            \/ Like(Lower(d.name), <<"%">> \o q \o <<"%">>)
            \/ Like(Lower(d.desc), <<"%">> \o q \o <<"%">>)}

\* select_candidates, for one evaluation of its subquery per name
Candidates(expanded, pick) ==
    {RowPkg(d) : d \in {x \in Matched(expanded) : x.repo = pick[x.name]}}

\* the tokens compute_df looks a query word up in
TextTokens(pkg) == Tokenize(Lower(pkg.name) \o <<" ">> \o Lower(pkg.desc))

\* compute_df: one count per candidate and per occurrence of q in query_words
Df(candidates, query_words, q) ==
    Cardinality({pkg \in candidates : q \in SeqSet(TextTokens(pkg))})
    * Cardinality({i \in 1..Len(query_words) : query_words[i] = q})

\* df.get(q).unwrap_or(&1)
DfOr1(candidates, query_words, q) ==
    IF Df(candidates, query_words, q) = 0 THEN 1 ELSE Df(candidates, query_words, q)

\* fuzzy_weight
fuzzy_weight(d) == 3 - d

RECURSIVE Sum(_)
Sum(q) == IF q = <<>> THEN 0 ELSE Head(q) + Sum(Tail(q))

\* twice what one query word adds to a package's score, in units of idf:
\* 5.0 for the name, 1.5 for a description token, fuzzy_weight for every near token
Weight2(pkg, q) ==
    LET name_lc == Lower(pkg.name)
        desc_tokens == Tokenize(Lower(pkg.desc))
        tokens == <<name_lc>> \o desc_tokens
    IN  (IF Contains(name_lc, q) THEN 10 ELSE 0)
        + (IF q \in SeqSet(desc_tokens) THEN 3 ELSE 0)
        + 2 * Sum([i \in 1..Len(tokens) |->
                    IF AbsDiff(ByteLen(tokens[i]), ByteLen(q)) > MAX_LEN_DIFF THEN 0
                    ELSE LET d == levenshtein_cutoff(tokens[i], q, MAX_DISTANCE)
                         IN  IF IsSome(d) THEN fuzzy_weight(Unwrap(d)) ELSE 0])

\* ln(k) in millionths, for the counts that occur
LnMicro(k) == <<0, 693147, 1098612, 1386294, 1609438, 1791759, 1945910, 2079441,
                2197224>>[k]

\* twice the score of score_packages, in millionths: the sum over the query words of
\* weight * ln(total_docs / df)
Score2(pkg, candidates, query_words) ==
    LET total_docs == IF Cardinality(candidates) = 0 THEN 1 ELSE Cardinality(candidates)
    IN  Sum([i \in 1..Len(query_words) |->
               Weight2(pkg, query_words[i])
               * (LnMicro(total_docs)
                  - LnMicro(DfOr1(candidates, query_words, query_words[i])))])

\* score_packages keeps every candidate
ScoredAny(candidates, query_words) == candidates

\* score_packages keeps the packages whose score is > 0.0
Scored(candidates, query_words) ==
    {pkg \in candidates : Score2(pkg, candidates, query_words) > 0}

\* the vectors select_candidates may return: the SELECT has no ORDER BY, so the
\* rows come in any order
Orders(candidates) ==
    {f \in [1..Cardinality(candidates) -> candidates] :
        \A i, j \in 1..Cardinality(candidates) : f[i] = f[j] => i = j}

\* the vector score_packages returns: the candidates are scored in the order of
\* the vector and pushed when the score is > 0.0
ScoredVec(selected, query_words) ==
    LET candidates == SeqSet(selected)
        kept == SelectSeq(selected, LAMBDA pkg : pkg \in Scored(candidates, query_words))
    IN  [i \in 1..Len(kept) |->
           [pkg |-> kept[i], score |-> Score2(kept[i], candidates, query_words)]]

\* a sort that places an element before the elements of the same score
PlaceBeforeEqual(sorted, x) ==
    LET k == Cardinality({i \in 1..Len(sorted) : sorted[i].score > x.score})
    IN  SubSeq(sorted, 1, k) \o <<x>> \o SubSeq(sorted, k + 1, Len(sorted))

\* where sort_by puts x among the elements that came before it: after those of
\* greater or equal score, the sort being stable
Place(sorted, x) ==
    LET k == Cardinality({i \in 1..Len(sorted) : sorted[i].score >= x.score})
    IN  SubSeq(sorted, 1, k) \o <<x>> \o SubSeq(sorted, k + 1, Len(sorted))

RECURSIVE SortByScore(_)
\* scored.sort_by(|a, b| b.0.partial_cmp(&a.0).unwrap())
SortByScore(scored) ==
    IF scored = <<>>
    THEN <<>>
    ELSE Place(SortByScore(SubSeq(scored, 1, Len(scored) - 1)), scored[Len(scored)])

\* the vector search returns for the vector select_candidates returned
Ranked(selected, query_words) == SortByScore(ScoredVec(selected, query_words))

\* the store is queried whatever the query words are
NoTokensNever(query_words) == FALSE

\* query_words.is_empty()
NoTokens(query_words) == query_words = <<>>

\* search(search_terms)
Search(search_terms) ==
    /\ CanQuery
    /\ LET query_words == Tokenize(JoinSpace(search_terms))
       IN  IF NoTokens(query_words)
           THEN Answered("search", search_terms, FALSE, "Ok", {}, {}, {})
           ELSE IF ~HasDescTable
           THEN Answered("search", search_terms, FALSE, "CacheDatabaseError", {}, {}, {})
           ELSE \E pick \in Picks(Matched(expand_query_words(query_words))) :
                  LET candidates == Candidates(expand_query_words(query_words), pick)
                  IN  \E selected \in Orders(candidates) :
                        RankedUnder("none", search_terms,
                                    expand_query_words(query_words), selected,
                                    Ranked(selected, query_words))

\* the inputs of the queries
QueryNames == {wex, guix, web}
QueryPaths == {pBin, Slash \o pBin, pC, <<"_">>}
QueryTerms == {<<gui>>, <<wex>>, <<dX, gui>>, <<Dash>>}

QueryInfo == \E n \in QueryNames : Info(n)
QueryFiles == \E n \in QueryNames, with_dirs \in BOOLEAN : Files(n, with_dirs)
QueryFind == \E path \in QueryPaths, exact \in BOOLEAN : FindPackagesByFile(path, exact)
QuerySearch == \E terms \in QueryTerms : Search(terms)

\* the rows update_cache leaves for one indexed package
PackageRows(r, name, version, desc, paths) ==
    [desc |-> {DescRow(r, name, version, desc, TRUE)},
     files |-> {FileRow(r, name, path) : path \in paths}]

Merge(a, b) == [desc |-> a.desc \cup b.desc, files |-> a.files \cup b.files]

\* what a repository holds in the caches the queries are run on
RepoContents(r) ==
    LET wex1 == PackageRows(r, wex, v1, dX, {pDir, pBin})
        wex2 == PackageRows(r, wex, v2, gui, {pBin, pC})
        guix1 == PackageRows(r, guix, v1, dX, {pC})
    IN  {EmptyRows, wex1, wex2, Merge(wex2, guix1)}

RepoU == <<"U">>
QueryRepos == <<RepoA, RepoB, RepoU>>

QueryCaches ==
    {Merge(a, Merge(b, u)) : <<a, b, u>> \in
        RepoContents(RepoA) \X RepoContents(RepoB) \X RepoContents(RepoU)}

\* the configurations the queries are run under
Configs == {<<RepoA, RepoB>>, <<RepoA>>}

InitQuery ==
    /\ syncDir = [r \in Repos |-> NoArchive]
    /\ syncs = 0
    /\ cache_exists = TRUE
    /\ schema = SchemaStatements
    /\ db \in QueryCaches
    /\ pc = "idle"
    /\ todo = {}
    /\ repo = NoRepo
    /\ already_cached = {}
    /\ id_to_pkg = EmptyMap
    /\ idx = 0
    /\ tx = NoTx
    /\ line = 0
    /\ ret = "none"
    /\ warned = {}
    /\ parsed = 0
    /\ snap = EmptyRows
    /\ prevRun = [valid |-> FALSE, rows |-> EmptyRows]
    /\ after_kill = FALSE
    /\ indexed = EmptyMap
    /\ config \in Configs
    /\ answer = NoAnswer
    /\ fault = "none"
    /\ pending = NoQuery
    /\ call = NoCall
    /\ cmd = NoCommand
    /\ eng = NoEngine

NextQuery ==
    \/ QueryInfo
    \/ QueryFiles
    \/ QueryFind
    \/ QuerySearch

SpecQuery == InitQuery /\ [][NextQuery]_vars

----------------------------------------------------------------------------
(* The queries on a store that fails *)

\* what the store may do to a query: fail a statement (prepare or query), or fail
\* the read of one result row
Faults == {"statement", "row"}

\* info: every rusqlite error but QueryReturnedNoRows is returned (lines 353-355)
InfoUnderFault(pkg_name, f) ==
    /\ CanQuery
    /\ f = "row" => ResolveRepos(db.desc, pkg_name) # {}
    /\ AnsweredUnder(f, "info", <<pkg_name>>, FALSE, "CacheDatabaseError", {}, {}, {})

\* files: prepare and query_map end in `?`, the rows go through filter_map(|r| r.ok())
FilesUnderFault(pkg_name, with_dirs, f) ==
    /\ CanQuery
    /\ IF f = "statement"
       THEN AnsweredUnder(f, "files", <<pkg_name>>, with_dirs, "CacheDatabaseError",
                          {}, {}, {})
       ELSE /\ pkg_exists(pkg_name)
            /\ \E r \in ResolveRepos(db.desc, pkg_name) :
                 \E lost \in FilesRows(pkg_name, with_dirs, r) :
                   AnsweredUnder(f, "files", <<pkg_name>>, with_dirs, "Ok", {},
                                 FilesRows(pkg_name, with_dirs, r) \ {lost}, {})

\* find_packages_by_file: the same shape as files
FindUnderFault(path, exact, f) ==
    /\ CanQuery
    /\ IF f = "statement"
       THEN AnsweredUnder(f, "find", <<path>>, exact, "CacheDatabaseError", {}, {}, {})
       ELSE \E pick \in Picks(db.desc) :
              \E lost \in FindRows(path, exact, pick) :
                AnsweredUnder(f, "find", <<path>>, exact, "Ok", {}, {},
                              FindRows(path, exact, pick) \ {lost})

\* search: the row that fails is one of select_candidates (line 505)
SearchUnderFault(search_terms, f) ==
    /\ CanQuery
    /\ LET query_words == Tokenize(JoinSpace(search_terms))
       IN  /\ query_words # <<>>
           /\ IF f = "statement"
              THEN AnsweredUnder(f, "search", search_terms, FALSE, "CacheDatabaseError",
                                 {}, {}, {})
              ELSE \E pick \in Picks(Matched(expand_query_words(query_words))) :
                     \E lost \in Candidates(expand_query_words(query_words), pick) :
                       LET candidates ==
                               Candidates(expand_query_words(query_words), pick) \ {lost}
                       IN  \E selected \in Orders(candidates) :
                             RankedUnder(f, search_terms,
                                         expand_query_words(query_words), selected,
                                         Ranked(selected, query_words))

FaultyInfo == \E n \in QueryNames, f \in Faults : InfoUnderFault(n, f)
FaultyFiles ==
    \E n \in QueryNames, with_dirs \in BOOLEAN, f \in Faults : FilesUnderFault(n, with_dirs, f)
FaultyFind ==
    \E path \in QueryPaths, exact \in BOOLEAN, f \in Faults : FindUnderFault(path, exact, f)
FaultySearch == \E terms \in QueryTerms, f \in Faults : SearchUnderFault(terms, f)

NextFault ==
    \/ FaultyInfo
    \/ FaultyFiles
    \/ FaultyFind
    \/ FaultySearch

SpecFault == InitQuery /\ [][NextFault]_vars

----------------------------------------------------------------------------
(* The queries when the store file may be missing: require_cache *)

\* the queries asked while the store may be missing
Requests ==
    {Query("info", <<wex>>, FALSE), Query("files", <<wex>>, TRUE),
     Query("find", <<pC>>, FALSE), Query("search", <<wex, dX>>, FALSE),
     Query("search", <<Dash, <<" ">>>>, FALSE), Query("search", <<>>, FALSE)}

\* the body of a query from Connection::open on
Run(q) ==
    CASE q.op = "info" -> Info(q.arg[1])
      [] q.op = "files" -> Files(q.arg[1], q.flag)
      [] q.op = "find" -> FindPackagesByFile(q.arg[1], q.flag)
      [] OTHER -> Search(q.arg)

\* the query returns the error of require_cache
Refused(q, e) == AnsweredUnder("none", q.op, q.arg, q.flag, e, {}, {}, {})

\* require_cache finds the store file: the query goes on at once
AskWithStore ==
    /\ pending = NoQuery
    /\ \E q \in Requests : Run(q)

\* run_cache_update: the user declines, or the command cannot be built or spawned
AskRefused ==
    /\ pc = "idle" /\ ~cache_exists /\ pending = NoQuery
    /\ \E q \in Requests, e \in {"DeniedPE", "InternalIO"} : Refused(q, e)

\* run_cache_update: the user accepts, `napm update` is spawned and waited for
AskAndRebuild ==
    /\ ~cache_exists /\ pending = NoQuery
    /\ \E q \in Requests : pending' = q
    /\ OpenStore
    /\ UNCHANGED <<config, answer, fault, call, cmd, eng>>

\* the update has ended, however it did
RebuildEnded == TRUE

\* the exit status of the spawned update is success
RebuildSucceeded == ret = "Ok"

\* wait() returns: Ok(()) on success, Error::System otherwise
Resume ==
    /\ pc = "idle" /\ pending # NoQuery
    /\ IF RebuildSucceeded THEN Run(pending) ELSE Refused(pending, "System")

\* the sync directory the rebuild finds
RebuildDirs ==
    {f \in [Repos -> Archives] :
        /\ f[RepoA] \in {Archive(Wex1), Archive(Broken), Unreadable}
        /\ f[RepoB] \in {Archive(Wex2), NoArchive}}

InitRebuild ==
    /\ syncDir \in RebuildDirs
    /\ syncs = 0
    /\ cache_exists = FALSE
    /\ schema = 0
    /\ db = EmptyRows
    /\ pc = "idle"
    /\ todo = {}
    /\ repo = NoRepo
    /\ already_cached = {}
    /\ id_to_pkg = EmptyMap
    /\ idx = 0
    /\ tx = NoTx
    /\ line = 0
    /\ ret = "none"
    /\ warned = {}
    /\ parsed = 0
    /\ snap = EmptyRows
    /\ prevRun = [valid |-> FALSE, rows |-> EmptyRows]
    /\ after_kill = FALSE
    /\ indexed = EmptyMap
    /\ config = <<RepoA, RepoB>>
    /\ answer = NoAnswer
    /\ fault = "none"
    /\ pending = NoQuery
    /\ call = NoCall
    /\ cmd = NoCommand
    /\ eng = NoEngine

NextRebuild ==
    \/ AskWithStore
    \/ AskRefused
    \/ AskAndRebuild
    \/ Resume
    \/ InitSchemaStep
    \/ CountArchives
    \/ NextRepo
    \/ Finish
    \/ Pass1Entry
    \/ EndPass1
    \/ Pass2Entry
    \/ TxInsert
    \/ TxMarkDone
    \/ TxCommit
    \/ EndPass2
    \/ Kill

SpecRebuild == InitRebuild /\ [][NextRebuild]_vars

----------------------------------------------------------------------------
(* The functions of the search, called on their own *)

MaxLevLen == 3
MaxLevDist == 3

gcc == <<"g", "c", "c">>
gcd == <<"g", "c", "d">>
zzzzzzzz == <<"z", "z", "z", "z", "z", "z", "z", "z">>

\* the strings levenshtein_cutoff is called on: every string of up to MaxLevLen of
\* these characters, and three longer words
LevAlphabet == {"c", "é", "è"}
LevStrings ==
    UNION {[1..k -> LevAlphabet] : k \in 0..MaxLevLen} \cup {gcc, gcd, zzzzzzzz}

\* nothing but call changes
OnlyCall ==
    UNCHANGED <<syncDir, syncs, cache_exists, schema, db, pc, todo, repo, already_cached,
                id_to_pkg, idx, tx, line, ret, warned, parsed, snap, prevRun, after_kill,
                indexed, config, answer, fault, pending, cmd, eng>>

\* one call, on arguments drawn from the strings and bounds above
CallLevenshtein ==
    /\ call = NoCall
    /\ \E a \in LevStrings, b \in LevStrings, max_dist \in 0..MaxLevDist :
         call' = [fn |-> "levenshtein_cutoff", args |-> <<a, b, max_dist>>,
                  out |-> LevRun(a, b, max_dist)]
    /\ OnlyCall

InitCall ==
    /\ syncDir = [r \in Repos |-> NoArchive]
    /\ syncs = 0
    /\ cache_exists = FALSE
    /\ schema = 0
    /\ db = EmptyRows
    /\ pc = "idle"
    /\ todo = {}
    /\ repo = NoRepo
    /\ already_cached = {}
    /\ id_to_pkg = EmptyMap
    /\ idx = 0
    /\ tx = NoTx
    /\ line = 0
    /\ ret = "none"
    /\ warned = {}
    /\ parsed = 0
    /\ snap = EmptyRows
    /\ prevRun = [valid |-> FALSE, rows |-> EmptyRows]
    /\ after_kill = FALSE
    /\ indexed = EmptyMap
    /\ config = <<RepoA, RepoB>>
    /\ answer = NoAnswer
    /\ fault = "none"
    /\ pending = NoQuery
    /\ call = NoCall
    /\ cmd = NoCommand
    /\ eng = NoEngine

NextLev == CallLevenshtein

SpecLev == InitCall /\ [][NextLev]_vars

Init ==
    /\ syncDir \in {f \in [Repos -> Archives] : f[RepoB] \in OtherArchives}
    /\ syncs = 0
    /\ cache_exists = FALSE
    /\ schema = 0
    /\ db = EmptyRows
    /\ pc = "idle"
    /\ todo = {}
    /\ repo = NoRepo
    /\ already_cached = {}
    /\ id_to_pkg = EmptyMap
    /\ idx = 0
    /\ tx = NoTx
    /\ line = 0
    /\ ret = "none"
    /\ warned = {}
    /\ parsed = 0
    /\ snap = EmptyRows
    /\ prevRun = [valid |-> FALSE, rows |-> EmptyRows]
    /\ after_kill = FALSE
    /\ indexed = EmptyMap
    /\ config = <<RepoA, RepoB>>
    /\ answer = NoAnswer
    /\ fault = "none"
    /\ pending = NoQuery
    /\ call = NoCall
    /\ cmd = NoCommand
    /\ eng = NoEngine

Next ==
    \/ StartUpdate
    \/ InitSchemaStep
    \/ CountArchives
    \/ NextRepo
    \/ Finish
    \/ Pass1Entry
    \/ EndPass1
    \/ Pass2Entry
    \/ TxInsert
    \/ TxMarkDone
    \/ TxCommit
    \/ EndPass2
    \/ Kill
    \/ EnvSync

Spec == Init /\ [][Next]_vars

----------------------------------------------------------------------------
(* Properties of update_cache *)

\* the paths stored for (r, name)
FilesOf(rows, r, name) ==
    {f.path : f \in {x \in rows.files : x.repo = r /\ x.name = name}}

\* the (repo, name) keys of the file rows
FileKeys(rows) == {<<f.repo, f.name>> : f \in rows.files}

\* the same for descriptor rows
DescKeys(rows) == {<<d.repo, d.name>> : d \in rows.desc}

\* C1: package_desc holds at most one row per (repo, name), in every state, also
\* after a package that is already stored is processed again with a new version.
C1_UniqueRepoName ==
    \A d1 \in db.desc, d2 \in db.desc :
        (d1.repo = d2.repo /\ d1.name = d2.name) => d1 = d2

\* a stored package has been processed again and now shows another version
C1_Witness ==
    /\ pc = "pass1"
    /\ \E d \in snap.desc, e \in db.desc :
         d.files_done /\ d.repo = e.repo /\ d.name = e.name /\ d.version # e.version

\* C2: whatever step the replacement of a package's file rows is interrupted at,
\* the committed file set of every package is, after every step, either the set it
\* was before the step or the complete path list of the files entry being committed.
C2_AtomicReplace ==
    [][\A k \in FileKeys(db) \cup FileKeys(db') :
          \/ FilesOf(db', k[1], k[2]) = FilesOf(db, k[1], k[2])
          \/ /\ pc = "commit"
             /\ k = <<repo, id_to_pkg[Entry.id]>>
             /\ FilesOf(db', k[1], k[2]) = PathsOf(Entry.lines)]_vars

\* a replacement is under way: the package has an old file set, and a part of the
\* new one is written inside the transaction
C2_Witness ==
    /\ pc = "insert"
    /\ line > 2
    /\ line <= Len(Entry.lines)
    /\ FilesOf(db, repo, id_to_pkg[Entry.id]) # {}
    /\ FilesOf(tx, repo, id_to_pkg[Entry.id]) # FilesOf(db, repo, id_to_pkg[Entry.id])
    /\ FilesOf(tx, repo, id_to_pkg[Entry.id]) # PathsOf(Entry.lines)

\* the directories of an archive
DirIds(entries) == {entries[i].id : i \in 1..Len(entries)}

\* the layout the sync writes: every directory holds a desc entry and a files entry,
\* is named name-version of its desc entry, no two directories declare one name,
\* and a files entry lists no path twice
WellFormed(a) ==
    /\ a.readable
    /\ \A i \in 1..Len(a.entries) :
         LET e == a.entries[i]
         IN  /\ e.kind \in {"desc", "files"}
             /\ \E j \in 1..Len(a.entries) :
                  a.entries[j].id = e.id /\ a.entries[j].kind = "desc"
             /\ \E j \in 1..Len(a.entries) :
                  a.entries[j].id = e.id /\ a.entries[j].kind = "files"
             /\ e.kind = "files" =>
                  \A m \in 2..Len(e.lines), n \in 2..Len(e.lines) :
                      e.lines[m] = e.lines[n] => m = n
             /\ e.kind = "desc" =>
                  LET p == ParseDesc(e.lines)
                  IN  /\ IsSome(p.name) /\ IsSome(p.version)
                      /\ e.id = Ident(Unwrap(p.name), Unwrap(p.version))
                      /\ DirsNamed(a.entries, Unwrap(p.name)) = {e.id}

AllWellFormed == \A r \in Repos : syncDir[r].present => WellFormed(syncDir[r])

\* every package directory of r's archive has its descriptor stored, under its name
\* and version, with files_done = true
Indexed(r) ==
    \A i \in 1..Len(syncDir[r].entries) :
        LET e == syncDir[r].entries[i]
            p == DirDesc(syncDir[r].entries, e.id)
        IN  e.kind = "files" =>
              \E d \in db.desc :
                  /\ d.repo = r /\ d.files_done
                  /\ d.name = Unwrap(p.name) /\ d.version = Unwrap(p.version)

\* C3 as claimed: a descriptor with files_done = true has exactly the complete path
\* list of a files entry committed for its package, and that entry's directory
\* shows the descriptor's version.
C3_DoneHasOwnFiles ==
    \A d \in db.desc :
        d.files_done =>
          /\ <<d.repo, d.name>> \in DOMAIN indexed
          /\ indexed[<<d.repo, d.name>>].paths = FilesOf(db, d.repo, d.name)
          /\ indexed[<<d.repo, d.name>>].version = Some(d.version)

\* C3 amended: the same, where the entry's directory shows the descriptor's version
\* when no other directory of its archive declares the package's name.
C3_DoneHasCommittedFiles ==
    \A d \in db.desc :
        d.files_done =>
          /\ <<d.repo, d.name>> \in DOMAIN indexed
          /\ indexed[<<d.repo, d.name>>].paths = FilesOf(db, d.repo, d.name)
          /\ indexed[<<d.repo, d.name>>].single =>
                indexed[<<d.repo, d.name>>].version = Some(d.version)

\* a kill has left one package indexed and another with its descriptor only
C3_Witness ==
    /\ pc = "idle"
    /\ ret = "killed"
    /\ \E d \in db.desc : d.files_done /\ FilesOf(db, d.repo, d.name) # {}
    /\ \E d \in db.desc : ~d.files_done

\* the second of two runs in a row on unchanged archives is about to return Ok
SecondRunEnds == pc = "repos" /\ todo = {} /\ prevRun.valid

\* C4 as claimed: the second of two runs in a row on the same archives leaves the
\* rows of the first run and processes no package.
C4_SecondRunIdle == SecondRunEnds => (db = prevRun.rows /\ parsed = 0)

\* C4 amended: the same, for archives of the layout the sync writes.
C4_SecondRunIdleWellFormed ==
    (SecondRunEnds /\ AllWellFormed) => (db = prevRun.rows /\ parsed = 0)

\* a second run on well-formed archives ends with packages stored
C4_Witness == SecondRunEnds /\ AllWellFormed /\ db.files # {}

\* the rows of repo whose name-version is cached at the start of repo's update
CachedAtStart ==
    {d \in snap.desc : d.repo = repo /\ d.files_done
                        /\ Ident(d.name, d.version) \in DirIds(Entries)}

\* the identifiers cached at the start of repo's update
CachedIds == {Ident(d.name, d.version) : d \in CachedAtStart}

\* a step of a pass on an entry whose identifier is cached writes and parses nothing
SkipStep ==
    (/\ pc \in {"pass1", "pass2"}
     /\ idx <= Len(Entries)
     /\ Entry.kind \in {"desc", "files"}
     /\ Entry.id \in CachedIds
     /\ pc' # "idle")
    => (db' = db /\ tx' = tx /\ parsed' = parsed /\ pc' = pc /\ idx' = idx + 1)

InUpdate == pc \in {"pass1", "pass2", "insert", "commit"}

\* C5 as claimed: an entry whose identifier is cached is neither parsed nor written,
\* and the cached package's descriptor and file rows stay as they were.
C5_CachedUntouched ==
    [][/\ SkipStep
       /\ InUpdate' =>
            \A d \in CachedAtStart' :
                /\ d \in db'.desc
                /\ FilesOf(db', d.repo, d.name) = FilesOf(snap', d.repo, d.name)]_vars

\* C5 amended: the same, for the cached packages whose name no directory with an
\* identifier that is not cached declares.
C5_CachedUntouchedUnlessRedeclared ==
    [][/\ SkipStep
       /\ InUpdate' =>
            \A d \in CachedAtStart' :
                DirsNamed(Entries', d.name) \subseteq CachedIds' =>
                  /\ d \in db'.desc
                  /\ FilesOf(db', d.repo, d.name) = FilesOf(snap', d.repo, d.name)]_vars

\* pass 2 stands on the files entry of a cached package
C5_Witness ==
    /\ pc = "pass2"
    /\ idx <= Len(Entries)
    /\ Entry.kind = "files"
    /\ \E d \in CachedAtStart :
         /\ Entry.id = Ident(d.name, d.version)
         /\ DirsNamed(Entries, d.name) \subseteq CachedIds
         /\ FilesOf(db, d.repo, d.name) # {}

Returns == {"Ok", "OpenArchive", "ExtractArchive", "CacheDatabaseError"}

\* C6: the run after a kill, on archives of the layout the sync writes, returns Ok
\* with every package of the archives stored, files_done = true, as an
\* uninterrupted run leaves them.
C6_RunAfterKillCompletes ==
    (pc = "idle" /\ after_kill /\ ret \in Returns /\ AllWellFormed) =>
        (ret = "Ok" /\ \A r \in Repos : Indexed(r))

\* C9: when update_cache, run on a store whose schema is complete, returns Ok or
\* with an archive error, every archive of the sync directory that can be read has
\* been processed.
C9_OtherArchivesProcessed ==
    (/\ pc = "idle"
     /\ ret \in {"Ok", "OpenArchive", "ExtractArchive"}
     /\ schema = SchemaStatements) =>
        \A r \in Repos : WellFormed(syncDir[r]) => Indexed(r)

\* pass 2 stands on a files entry whose identifier pass 1 has recorded no name for
OnUnrecorded ==
    /\ pc = "pass2"
    /\ idx <= Len(Entries)
    /\ Entry.kind = "files"
    /\ Entry.id \notin DOMAIN id_to_pkg

\* the step writes no row, logs a warning for the entry and goes on with the next
SkippedWithWarning ==
    /\ db' = db
    /\ tx' = tx
    /\ pc' = "pass2"
    /\ idx' = idx + 1
    /\ ret' = "running"
    /\ warned' = warned \cup {Entry.id}

\* something other than a files entry without descriptor makes update_cache fail
OtherFailure ==
    \/ schema < SchemaStatements
    \/ \E r \in Repos :
         /\ syncDir[r].present
         /\ \/ ~syncDir[r].readable
            \/ \E i \in 1..Len(syncDir[r].entries) :
                 LET e == syncDir[r].entries[i]
                 IN  \/ e.kind = "corrupt"
                     \/ /\ e.kind = "files"
                        /\ \E m \in 2..Len(e.lines), n \in 2..Len(e.lines) :
                             m # n /\ e.lines[m] = e.lines[n]

\* update_cache returns an error only for another failure
ErrHasOtherCause == (pc = "idle" /\ ret \in Returns \ {"Ok"}) => OtherFailure

\* C10 as claimed: every files entry whose identifier pass 1 has recorded no
\* descriptor for is skipped with a warning, writes no row, and update_cache goes on
\* and returns an error only if something else fails.
C10_UnrecordedWarned ==
    [][/\ (OnUnrecorded /\ ret' # "killed") => SkippedWithWarning
       /\ ErrHasOtherCause']_vars

\* C10 amended: the same for the files entries whose identifier is not already
\* cached; one whose identifier is cached is skipped without a warning.
C10_OrphanWarned ==
    [][/\ (OnUnrecorded /\ Entry.id \notin already_cached /\ ret' # "killed")
            => SkippedWithWarning
       /\ (OnUnrecorded /\ Entry.id \in already_cached /\ ret' # "killed")
            => (db' = db /\ tx' = tx /\ pc' = "pass2" /\ idx' = idx + 1
                /\ warned' = warned)
       /\ ErrHasOtherCause']_vars

\* a run that has warned about a files entry is about to return Ok
C10_Witness == pc = "repos" /\ todo = {} /\ warned # {}

----------------------------------------------------------------------------
(* Properties of the queries *)

\* the descriptor row of a name in a repository, if any
RowsOf(r, name) == {d \in db.desc : d.repo = r /\ d.name = name}

\* the names with a row in both of two repositories
InBoth(r1, r2) == {d.name : d \in {x \in db.desc : RowsOf(r1, x.name) # {} /\ RowsOf(r2, x.name) # {}}}

\* every record an answer carries
AnswerRows == answer.pkgs \cup {pair[1] : pair \in answer.pairs}

\* an Ok answer holds nothing of name n but what repository r has for it: info names
\* r's row through its own column mapping, files lists r's paths, and the records of
\* find_packages_by_file and search that bear the name are r's row
AnswersFrom(r, n) ==
    CASE answer.op = "info" ->
           answer.arg[1] = n => answer.pkgs = {InfoPkg(d) : d \in RowsOf(r, n)}
      [] answer.op = "files" ->
           answer.arg[1] = n =>
               answer.paths =
                   {Slash \o f.path : f \in {x \in db.files :
                       /\ x.name = n /\ x.repo = r
                       /\ answer.flag \/ ~IsDirectory(x.path)}}
      [] OTHER ->
           \A pkg \in AnswerRows : pkg.name = n => pkg \in {RowPkg(d) : d \in RowsOf(r, n)}

\* C7: when a package name has a row in repository A (position 0) and one in
\* repository B (position 1), info, files, find_packages_by_file and search answer
\* with A's row for that name and never with B's
C7_AnswersWithFirstRepo ==
    (answer.err = "Ok" /\ Len(config) >= 2 /\ config[1] # config[2])
        => \A n \in InBoth(config[1], config[2]) : AnswersFrom(config[1], n)

Listed(r) == \E i \in 1..Len(config) : config[i] = r

\* an Ok answer of info is about a listed repository whenever one holds the name
UnlistedAfterListed ==
    (answer.op = "info" /\ answer.err = "Ok")
        => \A r \in {d.repo : d \in {x \in db.desc : x.name = answer.arg[1]}} :
               Listed(r) => \E o \in {d.repo : d \in db.desc} :
                               Listed(o) /\ answer.pkgs = {InfoPkg(d) : d \in RowsOf(o, answer.arg[1])}

\* two calls of info for one name, one after the other, give one answer
SameOnNextCall ==
    (/\ answer.op = "info" /\ answer.err = "Ok"
     /\ answer'.op = "info" /\ answer'.arg = answer.arg)
        => answer' = answer

----------------------------------------------------------------------------
(* Properties of pass 1 on malformed descriptors *)

HasLine(lines, l) == \E i \in 1..Len(lines) : lines[i] = l

\* pass 1 is at a desc entry that has no %NAME% line
AtDescWithoutName ==
    /\ pc = "pass1" /\ idx <= Len(Entries)
    /\ Entry.kind = "desc" /\ ~HasLine(Entry.lines, TagNAME)

\* C11: processing a desc entry that has no %NAME% block inserts no package_desc row
\* for it, in particular none with an empty name, and never adds its identifier to
\* the identifier-to-name map
C11_NoNameStep ==
    AtDescWithoutName
        => /\ db'.desc = db.desc
           /\ Entry.id \notin DOMAIN id_to_pkg'
           /\ \A d \in db'.desc : d.name # <<>>

C11_NoNameRejected == [][C11_NoNameStep]_vars

\* pass 1 has met the desc entry without %NAME% and the process has ended on it
C11_Witness ==
    /\ ret = "panic"
    /\ syncDir[RepoA] = Archive(NoName)
    /\ \A d \in db.desc : d.name # <<>>

----------------------------------------------------------------------------
(* Properties of the queries on a store that fails *)

\* C12: every failure the store reports during a query, a failure while reading one
\* result row included, reaches the caller as a CacheDatabaseError: no query returns
\* Ok with rows left out
C12_StoreFailureReported ==
    fault # "none" => answer.err = "CacheDatabaseError"

----------------------------------------------------------------------------
(* Properties of require_cache *)

\* the errors require_cache returns before any update has been spawned
RequireErrors == {"DeniedPE", "InternalIO"}

\* C13: when the store file does not exist, a query never opens (and so never
\* creates) the store and never returns a result computed from an empty store: it
\* returns an error, or goes on only after a cache rebuild has run and reported success
C13_Step ==
    /\ (~cache_exists /\ cache_exists')
           => (pc' = "schema" /\ ret' = "running" /\ answer' = answer)
    /\ (~cache_exists /\ answer' # answer) => answer'.err \in RequireErrors
    /\ (pending # NoQuery /\ pending' = NoQuery)
           => \/ answer'.err = "System"
              \/ ret = "Ok" /\ prevRun.valid /\ schema = SchemaStatements

C13_NoStoreNoAnswer == [][C13_Step]_vars

\* a query that found no store has waited for the rebuild and answered from its rows
C13_Witness ==
    /\ answer.waited /\ answer.op = "files" /\ answer.err = "Ok"
    /\ answer.paths # {}

----------------------------------------------------------------------------
(* Properties of find_packages_by_file, files and info *)

\* the pairs whose '/' + stored path equals the fragment (exact) or ends with it
\* character for character (not exact), of the repository picked for each name
MatchingPairs(fragment, exact, pick) ==
    {<<RowPkg(d), Slash \o f.path>> :
        <<d, f>> \in {x \in db.desc \X db.files :
            /\ x[2].name = x[1].name /\ x[2].repo = x[1].repo
            /\ x[1].repo = pick[x[1].name]
            /\ IF exact THEN Slash \o x[2].path = fragment
               ELSE EndsWith(Slash \o x[2].path, fragment)}}

\* C14: find_packages_by_file(fragment, exact) returns exactly the (descriptor,
\* '/' + path) pairs whose '/' + stored path equals the fragment when exact, and
\* exactly those whose '/' + stored path ends with the fragment, compared character
\* for character, when not exact; only rows of the priority-resolved repository of
\* each package name
C14_FindExactPairs ==
    (answer.op = "find" /\ answer.err = "Ok")
        => \E pick \in Picks(db.desc) :
               answer.pairs = MatchingPairs(answer.arg[1], answer.flag, pick)

\* a fragment of plain characters that has no leading '/'
PlainRelative(fragment) ==
    /\ fragment # <<>> /\ Head(fragment) # "/"
    /\ ~Contains(fragment, <<"_">>) /\ ~Contains(fragment, <<"%">>)

\* C15: the file lookup normalizes its fragment to exactly one leading '/' before
\* matching: for every fragment F with no leading '/', the lookup of F returns the
\* pairs the lookup of '/' + F returns, for exact and for non-exact lookups
C15_LeadingSlashAdded ==
    (/\ answer.op = "find" /\ answer.err = "Ok"
     /\ PlainRelative(answer.arg[1]))
        => \E pick \in Picks(db.desc) :
               answer.pairs = FindRows(Slash \o answer.arg[1], answer.flag, pick)

\* the stored paths of a package of a repository
StoredPaths(r, name) == {f.path : f \in {x \in db.files : x.repo = r /\ x.name = name}}

\* C16: files(name, with_dirs) returns PackageNotFound when no descriptor with that
\* name exists in any repository; otherwise it returns '/' + path for the stored
\* paths of the priority-resolved repository's package: all of them when with_dirs
\* is true, and exactly those that do not end in '/' when with_dirs is false
C16_FilesOfResolvedRepo ==
    answer.op = "files" =>
        IF \A d \in db.desc : d.name # answer.arg[1]
        THEN answer.err = "PackageNotFound"
        ELSE /\ answer.err = "Ok"
             /\ \E r \in ResolveRepos(db.desc, answer.arg[1]) :
                    answer.paths =
                        {Slash \o path : path \in {x \in StoredPaths(r, answer.arg[1]) :
                            answer.flag \/ ~EndsWith(x, Slash)}}

\* files has left a directory out of the paths of a package held by two repositories
C16_Witness ==
    /\ answer.op = "files" /\ answer.err = "Ok" /\ ~answer.flag
    /\ answer.paths # {}
    /\ Cardinality({d \in db.desc : d.name = answer.arg[1]}) >= 2
    /\ \E r \in ResolveRepos(db.desc, answer.arg[1]) :
           \E path \in StoredPaths(r, answer.arg[1]) :
               EndsWith(path, Slash) /\ Slash \o path \notin answer.paths

\* C17: info(name) returns PackageNotFound when no row has that name; otherwise the
\* name, version, description and repository of its result are the name, version,
\* desc and repo columns of the row of the highest-priority repository that holds
\* the name
C17_InfoReturnsRow ==
    answer.op = "info" =>
        IF \A d \in db.desc : d.name # answer.arg[1]
        THEN answer.err = "PackageNotFound"
        ELSE /\ answer.err = "Ok"
             /\ \E r \in ResolveRepos(db.desc, answer.arg[1]) :
                    answer.pkgs =
                        {Pkg(d.name, d.version, d.repo, d.desc) : d \in RowsOf(r, answer.arg[1])}

----------------------------------------------------------------------------
(* Properties of search *)

\* a query finds the store file and answers
AnswersWithStore ==
    /\ cache_exists /\ pc = "idle" /\ pending = NoQuery
    /\ answer' # answer

\* C18: with the cache present, search on a query that tokenizes to no token returns
\* Ok with an empty list, reads no descriptor and raises no error: it does so also
\* on a store file that has no tables yet
C18_Step ==
    (/\ AnswersWithStore
     /\ answer'.op = "search" /\ Tokenize(JoinSpace(answer'.arg)) = <<>>)
        => answer'.err = "Ok" /\ answer'.pkgs = {}

C18_NoTokenNoRead == [][C18_Step]_vars

\* search on a query without a token has answered Ok on a store file without tables
C18_Witness ==
    /\ answer.op = "search" /\ answer.arg = <<Dash, <<" ">>>> /\ answer.err = "Ok"
    /\ answer.pkgs = {}
    /\ cache_exists /\ schema < SchemaStatements

----------------------------------------------------------------------------
(* Properties of levenshtein_cutoff *)

\* the edit distance of two strings: the least number of insertions, deletions and
\* substitutions of one character that turn one into the other
RECURSIVE EditDistance(_, _)
EditDistance(a, b) ==
    IF a = <<>> THEN Len(b)
    ELSE IF b = <<>> THEN Len(a)
    ELSE Min(Min(EditDistance(Tail(a), b) + 1, EditDistance(a, Tail(b)) + 1),
             EditDistance(Tail(a), Tail(b)) + (IF Head(a) = Head(b) THEN 0 ELSE 1))

\* what the claim expects of levenshtein_cutoff(a, b, m)
BoundedDistance(a, b, m) ==
    IF EditDistance(a, b) <= m THEN Some(EditDistance(a, b)) ELSE NoneVal

\* C19: for all strings a and b and every bound m, levenshtein_cutoff(a, b, m)
\* returns Some(d) exactly when the edit distance d of a and b is at most m, and None
\* otherwise; it returns None without filling any row when the lengths (str::len)
\* differ by more than m
C19_BoundedDistance ==
    call.fn = "levenshtein_cutoff" =>
        /\ call.out.out = BoundedDistance(call.args[1], call.args[2], call.args[3])
        /\ AbsDiff(ByteLen(call.args[1]), ByteLen(call.args[2])) > call.args[3]
               => call.out = [out |-> NoneVal, rows |-> 0]

----------------------------------------------------------------------------
(* search on caches of browsers *)

firefox == <<"f", "i", "r", "e", "f", "o", "x">>
chromium == <<"c", "h", "r", "o", "m", "i", "u", "m">>
browser == <<"b", "r", "o", "w", "s", "e", "r">>
web_browser == web \o <<" ">> \o browser
firefix == <<"f", "i", "r", "e", "f", "i", "x">>
chromiem == <<"c", "h", "r", "o", "m", "i", "é", "m">>
xyzxyz == <<"x", "y", "z", "x", "y", "z">>

webbrowser == web \o browser
we_ == <<"w", "e", "_">>

\* the caches: firefox described as a web browser, chromium as a web browser or as a
\* browser, each in either repository, and possibly a compiler or a package called
\* webbrowser next to them, or a package called we_ and a compiler described as wex
RelevanceCaches ==
    {Merge(PackageRows(rf, firefox, v1, web_browser, {}),
           Merge(PackageRows(rc, chromium, v1, dc, {}), other)) :
        <<rf, rc, dc, other>> \in
            {RepoA, RepoB} \X {RepoA, RepoB} \X {web_browser, browser}
            \X {EmptyRows, PackageRows(RepoA, gcc, v1, dX, {}),
                PackageRows(RepoA, webbrowser, v1, dX, {}),
                Merge(PackageRows(RepoA, we_, v1, dX, {}),
                      PackageRows(RepoA, gcc, v1, wex, {}))}}

RelevanceTerms ==
    {<<browser>>, <<firefox>>, <<chromium>>, <<web>>, <<firefix>>, <<xyzxyz>>,
     <<firefox, browser>>, <<browser, browser>>, <<chromiem>>}

InitRelevance ==
    /\ syncDir = [r \in Repos |-> NoArchive]
    /\ syncs = 0
    /\ cache_exists = TRUE
    /\ schema = SchemaStatements
    /\ db \in RelevanceCaches
    /\ pc = "idle"
    /\ todo = {}
    /\ repo = NoRepo
    /\ already_cached = {}
    /\ id_to_pkg = EmptyMap
    /\ idx = 0
    /\ tx = NoTx
    /\ line = 0
    /\ ret = "none"
    /\ warned = {}
    /\ parsed = 0
    /\ snap = EmptyRows
    /\ prevRun = [valid |-> FALSE, rows |-> EmptyRows]
    /\ after_kill = FALSE
    /\ indexed = EmptyMap
    /\ config = <<RepoA, RepoB>>
    /\ answer = NoAnswer
    /\ fault = "none"
    /\ pending = NoQuery
    /\ call = NoCall
    /\ cmd = NoCommand
    /\ eng = NoEngine

\* one run of `napm search`: the process makes one search and exits
NextRelevance == answer = NoAnswer /\ \E terms \in RelevanceTerms : Search(terms)

SpecRelevance == InitRelevance /\ [][NextRelevance]_vars

\* the position of the package called name in the answer of search, 0 when absent
RankOf(name) ==
    IF \E i \in 1..Len(answer.ranked) : answer.ranked[i].pkg.name = name
    THEN CHOOSE i \in 1..Len(answer.ranked) : answer.ranked[i].pkg.name = name
    ELSE 0

\* the cache holds firefox and chromium, both described as a web browser, and nothing else
BrowsersOnly ==
    /\ {d.name : d \in db.desc} = {firefox, chromium}
    /\ \A d \in db.desc : d.desc = web_browser

\* C20: on a cache holding firefox and chromium, both described as "web browser", the
\* search for "browser" returns both packages with equal scores, and the search for
\* "firefox" returns firefox ranked strictly above chromium
C20_BrowserTiesFirefoxFirst ==
    (BrowsersOnly /\ answer.op = "search" /\ answer.err = "Ok") =>
        /\ answer.arg = <<browser>> =>
              /\ RankOf(firefox) > 0
              /\ RankOf(chromium) > 0
              /\ answer.ranked[RankOf(firefox)].score = answer.ranked[RankOf(chromium)].score
        /\ answer.arg = <<firefox>> =>
              /\ RankOf(firefox) > 0
              /\ RankOf(chromium) > 0 =>
                    /\ RankOf(firefox) < RankOf(chromium)
                    /\ answer.ranked[RankOf(firefox)].score
                         > answer.ranked[RankOf(chromium)].score

\* the cache holds a package named firefox
HoldsFirefox == \E d \in db.desc : d.name = firefox

\* C21: on a cache that contains a package named firefox, the search for "firefix"
\* returns firefox with a positive score, and the search for "xyzxyz" returns an
\* empty list
C21_FuzzyFindsFirefox ==
    (HoldsFirefox /\ answer.op = "search" /\ answer.err = "Ok") =>
        /\ answer.arg = <<firefix>> =>
              /\ RankOf(firefox) > 0
              /\ answer.ranked[RankOf(firefox)].score > 0
        /\ answer.arg = <<xyzxyz>> => answer.ranked = <<>>

----------------------------------------------------------------------------
(* Readers while update_cache runs *)

\* the queries another process asks, at any moment
ReaderRequests ==
    {Query("info", <<wex>>, FALSE), Query("files", <<wex>>, TRUE),
     Query("find", <<pBin>>, FALSE), Query("search", <<wex>>, FALSE)}

\* a query of another process: it reads what is committed
Read ==
    /\ pending = NoQuery
    /\ \E q \in ReaderRequests : Run(q)

\* the sync directory the updates find
ReaderDirs ==
    {f \in [Repos -> Archives] :
        /\ f[RepoA] = Archive(Wex1)
        /\ f[RepoB] \in {Archive(Wex2), NoArchive}}

InitReader ==
    /\ syncDir \in ReaderDirs
    /\ syncs = 0
    /\ cache_exists = FALSE
    /\ schema = 0
    /\ db = EmptyRows
    /\ pc = "idle"
    /\ todo = {}
    /\ repo = NoRepo
    /\ already_cached = {}
    /\ id_to_pkg = EmptyMap
    /\ idx = 0
    /\ tx = NoTx
    /\ line = 0
    /\ ret = "none"
    /\ warned = {}
    /\ parsed = 0
    /\ snap = EmptyRows
    /\ prevRun = [valid |-> FALSE, rows |-> EmptyRows]
    /\ after_kill = FALSE
    /\ indexed = EmptyMap
    /\ config = <<RepoA, RepoB>>
    /\ answer = NoAnswer
    /\ fault = "none"
    /\ pending = NoQuery
    /\ call = NoCall
    /\ cmd = NoCommand
    /\ eng = NoEngine

NextReader ==
    \/ Read
    \/ StartUpdate
    \/ InitSchemaStep
    \/ CountArchives
    \/ NextRepo
    \/ Finish
    \/ Pass1Entry
    \/ EndPass1
    \/ Pass2Entry
    \/ TxInsert
    \/ TxMarkDone
    \/ TxCommit
    \/ EndPass2
    \/ EnvSync

SpecReader == InitReader /\ [][NextReader]_vars

\* C22: with the cache file present, info, files, find_packages_by_file and search
\* leave package_desc and package_files unchanged for every input; update_cache is the
\* only operation that ever inserts, replaces, updates or deletes a row
C22_Step ==
    /\ answer' # answer => db' = db
    /\ db' # db => (pc # "idle" /\ answer' = answer)

C22_OnlyUpdateWrites == [][C22_Step]_vars

\* a query has answered from the rows of a store that an update_cache is writing
C22_Witness ==
    /\ pc = "pass2" /\ db.files # {}
    /\ answer.op = "find" /\ answer.err = "Ok" /\ answer.pairs # {}

\* the file lists the archive of the running update holds for the package called name
\* in the directories pass 1 has recorded
ListsBeingIndexed(name) ==
    {PathsOf(Entries[i].lines) : i \in {j \in 1..Len(Entries) :
        /\ Entries[j].kind = "files"
        /\ Entries[j].id \in DOMAIN id_to_pkg
        /\ id_to_pkg[Entries[j].id] = name}}

\* the running update is in the middle of indexing the package: pass 1 has upserted
\* its descriptor, pass 2 has not committed its file list
MidUpdate(name) ==
    /\ pc \in {"pass1", "pass2", "insert", "commit"}
    /\ ListsBeingIndexed(name) # {}
    /\ \E d \in db.desc : d.repo = repo /\ d.name = name /\ ~d.files_done

\* the file list the package had when the update of its repository started
ListBefore(name) == {f.path : f \in {x \in snap.files : x.repo = repo /\ x.name = name}}

Slashed(paths) == {Slash \o path : path \in paths}

\* C23: a reader that calls files(name) while update_cache is running never observes
\* an empty or half-written file set for a package the running update is in the middle
\* of indexing: it observes the complete list the package had before, or the
\* complete list of the entry being indexed
C23_Step ==
    (/\ answer' # answer
     /\ answer'.op = "files" /\ answer'.err = "Ok" /\ answer'.flag
     /\ MidUpdate(answer'.arg[1])
     /\ ResolveRepos(db.desc, answer'.arg[1]) = {repo})
    => /\ answer'.paths # {}
       /\ \/ answer'.paths = Slashed(ListBefore(answer'.arg[1]))
          \/ answer'.paths \in {Slashed(l) : l \in ListsBeingIndexed(answer'.arg[1])}

C23_ReaderSeesWholeList == [][C23_Step]_vars

----------------------------------------------------------------------------
(* The update command: commands/update.rs *)

\* the flag is not looked at: the file cache is refreshed by every update
RefreshesFileCache(no_file_cache) == FALSE

\* if !no_file_cache: with the flag the command ends after the package databases
SkipsFileCache(no_file_cache) == no_file_cache

\* the sync directories the command finds and the refresh of .files leaves
CommandDirs ==
    {f \in [Repos -> Archives] :
        /\ f[RepoA] \in {Archive(Wex1), Archive(Wex2), Archive(Broken)}
        /\ f[RepoB] \in {Archive(Wex2), NoArchive}}

\* everything but cmd is left as it is
OnlyCommand ==
    UNCHANGED <<syncDir, syncs, cache_exists, schema, db, pc, todo, repo, already_cached,
                id_to_pkg, idx, tx, line, ret, warned, parsed, snap, prevRun, after_kill,
                indexed, config, answer, fault, pending, call, eng>>

\* `napm update` or `napm update --no-file-cache` is run as root
RunUpdate ==
    /\ pc = "idle" /\ cmd.at \in {"none", "done"}
    /\ \E no_file_cache \in BOOLEAN :
         cmd' = [at |-> "db", no_file_cache |-> no_file_cache, db |-> FALSE,
                 files |-> FALSE, out |-> "running"]
    /\ OnlyCommand

\* napm.update(".db")?, and the branch on the flag
RefreshDb ==
    /\ cmd.at = "db"
    /\ \E ok \in BOOLEAN :
         cmd' = IF ~ok THEN [cmd EXCEPT !.at = "done", !.out = "Update"]
                ELSE IF SkipsFileCache(cmd.no_file_cache)
                THEN [cmd EXCEPT !.at = "done", !.db = TRUE, !.out = "Ok"]
                ELSE [cmd EXCEPT !.at = "files", !.db = TRUE]
    /\ OnlyCommand

\* napm.update(".files")?: the archives of the sync directory are downloaded anew
RefreshFiles ==
    /\ cmd.at = "files"
    /\ \E ok \in BOOLEAN :
         cmd' = IF ok THEN [cmd EXCEPT !.at = "cache", !.files = TRUE]
                ELSE [cmd EXCEPT !.at = "done", !.out = "Update"]
    /\ syncDir' \in CommandDirs
    /\ prevRun' = [valid |-> FALSE, rows |-> EmptyRows]
    /\ UNCHANGED <<syncs, cache_exists, schema, db, pc, todo, repo, already_cached,
                   id_to_pkg, idx, tx, line, ret, warned, parsed, snap, after_kill,
                   indexed, config, answer, fault, pending, call, eng>>

\* napm.update_cache()? is called
StartCache ==
    /\ cmd.at = "cache"
    /\ cmd' = [cmd EXCEPT !.at = "caching"]
    /\ OpenStore
    /\ UNCHANGED <<config, answer, fault, pending, call, eng>>

\* update_cache has returned, and the command returns what it returned
EndCommand ==
    /\ cmd.at = "caching" /\ pc = "idle"
    /\ cmd' = [cmd EXCEPT !.at = "done", !.out = ret]
    /\ OnlyCommand

InitCommand ==
    /\ syncDir \in CommandDirs
    /\ syncs = 0
    /\ cache_exists = FALSE
    /\ schema = 0
    /\ db = EmptyRows
    /\ pc = "idle"
    /\ todo = {}
    /\ repo = NoRepo
    /\ already_cached = {}
    /\ id_to_pkg = EmptyMap
    /\ idx = 0
    /\ tx = NoTx
    /\ line = 0
    /\ ret = "none"
    /\ warned = {}
    /\ parsed = 0
    /\ snap = EmptyRows
    /\ prevRun = [valid |-> FALSE, rows |-> EmptyRows]
    /\ after_kill = FALSE
    /\ indexed = EmptyMap
    /\ config = <<RepoA, RepoB>>
    /\ answer = NoAnswer
    /\ fault = "none"
    /\ pending = NoQuery
    /\ call = NoCall
    /\ cmd = NoCommand
    /\ eng = NoEngine

NextCommand ==
    \/ RunUpdate
    \/ RefreshDb
    \/ RefreshFiles
    \/ StartCache
    \/ EndCommand
    \/ InitSchemaStep
    \/ CountArchives
    \/ NextRepo
    \/ Finish
    \/ Pass1Entry
    \/ EndPass1
    \/ Pass2Entry
    \/ TxInsert
    \/ TxMarkDone
    \/ TxCommit
    \/ EndPass2

SpecCommand == InitCommand /\ [][NextCommand]_vars

\* the state of the store and of the sync directory
Stored == <<syncDir, cache_exists, schema, db, tx, pc>>

\* C24: the update command run with --no-file-cache refreshes only the package
\* databases: it never refreshes the .files databases and never runs update_cache, so
\* the cache store is left unchanged; without the flag update_cache runs only after
\* the refresh of .db and then the refresh of .files have both succeeded
C24_Step ==
    /\ (cmd'.no_file_cache /\ cmd'.at # "none") =>
          /\ Stored' = Stored
          /\ ~cmd'.files
          /\ cmd'.out = "Ok" => cmd'.db
    /\ (pc = "idle" /\ pc' # "idle") =>
          /\ ~cmd.no_file_cache
          /\ cmd.db /\ cmd.files

C24_FlagSkipsFileCache == [][C24_Step]_vars

\* the command with the flag has ended with Ok on a store an earlier command filled
C24_Witness ==
    /\ cmd.at = "done" /\ cmd.no_file_cache /\ cmd.out = "Ok"
    /\ db.files # {}

\* the desc entries of the archive being read that are not cached and that pass 1 has
\* not processed
Unprocessed ==
    {i \in 1..Len(Entries) :
        /\ Entries[i].kind = "desc"
        /\ Entries[i].id \notin already_cached
        /\ Entries[i].id \notin DOMAIN id_to_pkg}

Pass2Positions == {"pass2", "insert", "commit"}

\* C25: within one repository's update every descriptor upsert of pass 1 happens
\* before the first file-set replacement of pass 2: no package_files row is written
\* for the repository while a desc entry of its archive that is not cached is still
\* unprocessed, and pass 2 is not started when pass 1 fails
C25_Step ==
    /\ pc' \in Pass2Positions => Unprocessed' = {}
    /\ (db'.files # db.files \/ tx'.files # tx.files) => pc \in Pass2Positions
    /\ (pc = "pass1" /\ pc' # "pass1") =>
          \/ pc' = "pass2" /\ idx > Len(Entries) /\ ret' = "running"
          \/ pc' = "idle" /\ ret' # "running" /\ db'.files = db.files

C25_Pass1BeforePass2 == [][C25_Step]_vars

\* pass 2 is replacing a file set after pass 1 has recorded two directories
C25_Witness ==
    /\ pc = "insert" /\ tx.files # {}
    /\ Cardinality(DOMAIN id_to_pkg) = 2

\* C26: in every state, the state left by a crash at any step of a first-time
\* update_cache included, the store file exists only if both tables exist; the
\* steps of a schema creation that is still running are left out
C26_FileOnlyWithTables ==
    (cache_exists /\ pc # "schema") => (HasDescTable /\ HasFilesTable)

\* a line of a files entry that is a path: not blank, not a tag
IsPathLine(l) == l # <<>> /\ Head(l) # "%"

\* C27: when a files entry is indexed, the stored paths of the package are exactly the
\* lines after the header line that are not blank and do not start with '%', and a
\* blank line or a tag line never makes the replacement fail
C27_Step ==
    /\ (pc = "commit" /\ pc' = "pass2") =>
          {f.path : f \in {x \in db'.files :
                             x.repo = repo /\ x.name = id_to_pkg[Entry.id]}}
            = {Entry.lines[i] : i \in {j \in 2..Len(Entry.lines) : IsPathLine(Entry.lines[j])}}
    /\ (pc = "insert" /\ ret' = "CacheDatabaseError") => IsPathLine(Entry.lines[line])

C27_OnlyPathLinesStored == [][C27_Step]_vars

\* pass 1 is at a desc entry that is not cached and has no NAME or no VERSION
AtIncompleteDesc ==
    /\ pc = "pass1" /\ idx <= Len(Entries)
    /\ Entry.kind = "desc" /\ Entry.id \notin already_cached
    /\ \/ ~IsSome(ParseDesc(Entry.lines).name)
       \/ ~IsSome(ParseDesc(Entry.lines).version)

\* C28: whatever the archive holds, update_cache ends by returning Ok or a typed Err
\* and never through a panic, and a desc entry with no NAME or no VERSION is skipped
\* with a warning instead of ending the update
C28_Step ==
    /\ ret' # "panic"
    /\ (AtIncompleteDesc /\ ret' # "killed") =>
          /\ pc' = "pass1" /\ idx' = idx + 1
          /\ Entry.id \in warned'
          /\ db' = db

C28_NoPanic == [][C28_Step]_vars

\* the names pass 1 of the running repository update has upserted a descriptor for
Recorded == {id_to_pkg[id] : id \in DOMAIN id_to_pkg}

\* file rows appear only for the repository being updated and a name pass 1 has
\* recorded, and no descriptor is removed
C29_Step ==
    /\ \A k \in FileKeys(db') \ FileKeys(db) : k[1] = repo /\ k[2] \in Recorded
    /\ DescKeys(db) \subseteq DescKeys(db')

\* C29: in every reachable state every package_files row has a package_desc row with
\* the same (repo, name): file rows are written only for names whose descriptor pass 1
\* of the same repository update has upserted, and no descriptor row is removed
C29_FilesHaveDescriptor ==
    /\ [](FileKeys(db) \subseteq DescKeys(db))
    /\ [][C29_Step]_vars

\* both repositories hold file rows after a run that returned Ok
C29_Witness ==
    /\ pc = "idle" /\ ret = "Ok"
    /\ \E f \in db.files : f.repo = RepoA
    /\ \E f \in db.files : f.repo = RepoB

\* the names the desc entries of a repository's archive declare
Declared(r) ==
    {Unwrap(ParseDesc(syncDir[r].entries[i].lines).name) :
        i \in {j \in 1..Len(syncDir[r].entries) :
                 /\ syncDir[r].entries[j].kind = "desc"
                 /\ IsSome(ParseDesc(syncDir[r].entries[j].lines).name)}}

\* a stored package that is no longer in its repository's archive
Stale(k) == k \in DescKeys(db) /\ k[2] \notin Declared(k[1])

\* the stale packages called n that the queries resolve n to
StaleResolved(n) ==
    {k \in DescKeys(db) : k[2] = n /\ Stale(k) /\ ResolveRepos(db.desc, n) = {k[1]}}

DescOfKey(rows, k) == {d \in rows.desc : <<d.repo, d.name>> = k}
PathsOfKey(rows, k) == {f.path : f \in {x \in rows.files : <<x.repo, x.name>> = k}}

\* file rows go only in the commit that re-inserts the package's list, no descriptor
\* goes, and the rows of a stale package stay as they are
C30_Frame ==
    /\ \A k \in FileKeys(db) :
          PathsOfKey(db', k) # PathsOfKey(db, k) =>
              /\ pc = "commit"
              /\ k = <<repo, id_to_pkg[Entry.id]>>
              /\ PathsOfKey(db', k) = PathsOf(Entry.lines)
    /\ DescKeys(db) \subseteq DescKeys(db')
    /\ \A k \in DescKeys(db) :
          Stale(k) => /\ DescOfKey(db', k) = DescOfKey(db, k)
                      /\ PathsOfKey(db', k) = PathsOfKey(db, k)

\* a query that returns shows the stale package it resolves a name to; for search,
\* whose result depends on the scores, the statement of select_candidates selects
\* the package's row
C30_Visible ==
    (answer' # answer /\ answer'.err \in {"Ok", "PackageNotFound"}) =>
        /\ answer'.op = "info" =>
              \A k \in StaleResolved(answer'.arg[1]) :
                  \E p \in answer'.pkgs : p.name = k[2]
        /\ answer'.op = "files" =>
              \A k \in StaleResolved(answer'.arg[1]) :
                  answer'.paths = Slashed(PathsOfKey(db, k))
        /\ answer'.op = "find" =>
              \A k \in DescKeys(db) :
                  k \in StaleResolved(k[2]) =>
                      \A path \in PathsOfKey(db, k) :
                          EndsWith(Slash \o path, answer'.arg[1]) =>
                              \E pair \in answer'.pairs :
                                  pair[1].name = k[2] /\ pair[2] = Slash \o path
        /\ answer'.op = "search" =>
              \A i \in 1..Len(answer'.arg) :
                  \A k \in StaleResolved(answer'.arg[i]) :
                      DescOfKey(db, k) \subseteq
                          Matched(expand_query_words(Tokenize(JoinSpace(answer'.arg))))

\* C30: update_cache deletes package_files rows only of a package whose file list it
\* re-inserts in the same transaction and never deletes a package_desc row: the
\* descriptor and the file rows of a package that is no longer in its repository's
\* archive are left unchanged by every run and stay visible to the queries
C30_StaleRowsKept == [][C30_Frame /\ C30_Visible]_vars

\* after a run on an archive that holds guix in place of wex, files has returned the
\* paths of wex
C30_Witness ==
    /\ pc = "idle" /\ ret = "Ok"
    /\ syncDir[RepoA] = Archive(Guix1)
    /\ <<RepoA, guix>> \in DescKeys(db)
    /\ StaleResolved(wex) = {<<RepoA, wex>>}
    /\ answer.op = "files" /\ answer.arg = <<wex>> /\ answer.err = "Ok"
    /\ answer.paths = Slashed(PathsOf(Wex1[2].lines))

----------------------------------------------------------------------------
(* Properties of the scores *)

\* the query words of the search that has answered
AnswerWords == Tokenize(JoinSpace(answer.arg))

\* the candidates select_candidates produced for the search that has answered
AnswerCandidates == {SeqSet(answer.selected)}

\* the number of candidates that hold q as a whole word of their name and description
WholeWordCount(candidates, q) ==
    Cardinality({pkg \in candidates : q \in SeqSet(TextTokens(pkg))})

SearchAnswered == answer.op = "search" /\ answer.err = "Ok" /\ AnswerWords # <<>>

\* C31: search returns a non-empty list only if some original query token occurs as a
\* whole word in strictly fewer candidates than there are candidates; whenever
\* candidate selection yields exactly one descriptor, search returns an empty list
C31_NonEmptyNeedsRareToken ==
    SearchAnswered =>
        \A c \in AnswerCandidates :
            /\ answer.ranked # <<>> =>
                  \E i \in 1..Len(AnswerWords) :
                      WholeWordCount(c, AnswerWords[i]) < Cardinality(c)
            /\ Cardinality(c) = 1 => answer.ranked = <<>>

\* the search for browser has returned packages: one of its three candidates does not
\* hold the word
C31_Witness ==
    /\ SearchAnswered /\ answer.arg = <<browser>>
    /\ answer.ranked # <<>>
    /\ \E c \in AnswerCandidates :
          Cardinality(c) = 3 /\ WholeWordCount(c, browser) = 2

\* the distances fuzzy_weight is applied to in the scoring of pkg for the word q
FuzzyDistances(pkg, q) ==
    LET tokens == <<Lower(pkg.name)>> \o Tokenize(Lower(pkg.desc))
    IN  {Unwrap(levenshtein_cutoff(tokens[i], q, MAX_DISTANCE)) :
            i \in {j \in 1..Len(tokens) :
                     /\ AbsDiff(ByteLen(tokens[j]), ByteLen(q)) <= MAX_LEN_DIFF
                     /\ IsSome(levenshtein_cutoff(tokens[j], q, MAX_DISTANCE))}}

\* C32: for every candidate set and query, the document frequency used for each
\* original token is at least 1 and at most the number of candidates, fuzzy_weight is
\* applied only to the distances 0, 1 and 2, and every score is a number >= 0
C32_DfAndScoresInRange ==
    SearchAnswered =>
        \A c \in AnswerCandidates : \A i \in 1..Len(AnswerWords) :
            /\ c # {} =>
                  /\ 1 <= DfOr1(c, AnswerWords, AnswerWords[i])
                  /\ DfOr1(c, AnswerWords, AnswerWords[i]) <= Cardinality(c)
            /\ \A pkg \in c :
                  /\ FuzzyDistances(pkg, AnswerWords[i]) \subseteq {0, 1, 2}
                  /\ Score2(pkg, c, AnswerWords) >= 0

\* the names that have a row whose lowercased name or description contains an
\* expanded term as a substring
NamesContaining(expanded) ==
    {d.name : d \in {x \in db.desc :
        \E t \in expanded : Contains(Lower(x.name), t) \/ Contains(Lower(x.desc), t)}}

\* C33: select_candidates returns exactly one descriptor for each package name that
\* has a row whose lowercased name or description contains some expanded term as a
\* substring, and no descriptor for any other name
C33_OneCandidatePerMatchingName ==
    SearchAnswered =>
        \A c \in AnswerCandidates :
            /\ {pkg.name : pkg \in c} = NamesContaining(expand_query_words(AnswerWords))
            /\ \A p1 \in c, p2 \in c : p1.name = p2.name => p1 = p2


\* the place of pkg in the vector select_candidates returned
SelectedAt(pkg) == CHOOSE i \in 1..Len(answer.selected) : answer.selected[i] = pkg

\* C34: the list search returns is ordered by non-increasing score, holds exactly
\* the candidates whose score is greater than 0, each once, and candidates of
\* equal score keep the order in which candidate selection produced them
C34_SortedPositiveStable ==
    SearchAnswered =>
        LET ranked == answer.ranked
            candidates == SeqSet(answer.selected)
        IN  /\ \A i, j \in 1..Len(ranked) : i < j => ranked[i].score >= ranked[j].score
            /\ {ranked[i].pkg : i \in 1..Len(ranked)}
                 = {pkg \in candidates : Score2(pkg, candidates, AnswerWords) > 0}
            /\ \A i, j \in 1..Len(ranked) : ranked[i].pkg = ranked[j].pkg => i = j
            /\ \A i \in 1..Len(ranked) :
                 ranked[i].score = Score2(ranked[i].pkg, candidates, AnswerWords)
            /\ \A i, j \in 1..Len(ranked) :
                 i < j /\ ranked[i].score = ranked[j].score
                     => SelectedAt(ranked[i].pkg) < SelectedAt(ranked[j].pkg)

\* search("browser") has answered over firefox, chromium and webbrowser: the first
\* of the list scores more than the two others, which score the same, and
\* chromium was selected before firefox
C34_Witness ==
    /\ SearchAnswered
    /\ answer.arg = <<browser>>
    /\ Len(answer.selected) = 3
    /\ Len(answer.ranked) = 3
    /\ answer.ranked[1].score > answer.ranked[2].score
    /\ answer.ranked[2].score = answer.ranked[3].score
    /\ answer.ranked[2].pkg.name = chromium
    /\ answer.selected[1].name = chromium


\* the rows of the repositories other than r
OtherRows(rows, r) ==
    [desc |-> {d \in rows.desc : d.repo # r}, files |-> {f \in rows.files : f.repo # r}]

\* the identifier-to-name pairs the desc entries of the archive being read give
OwnDescriptors ==
    {<<Entries[j].id, Unwrap(ParseDesc(Entries[j].lines).name)>> :
        j \in {i \in 1..Len(Entries) :
                 /\ Entries[i].kind = "desc"
                 /\ IsSome(ParseDesc(Entries[i].lines).name)}}

\* the passes of a repository are running
InPasses == pc \in {"pass1", "pass2", "insert", "commit"}

\* a step that changes the store or the open transaction is a step of the passes of
\* the current repository and leaves the rows of the other repositories as they
\* were; each repository starts with an empty map
C35_Step ==
    /\ db' # db => InPasses /\ OtherRows(db', repo) = OtherRows(db, repo)
    /\ tx'.open => OtherRows([desc |-> tx'.desc, files |-> tx'.files], repo')
                      = OtherRows(db', repo')
    /\ (pc = "repos" /\ pc' = "pass1") => id_to_pkg' = EmptyMap

\* C35: the update of repository R writes only rows whose repo column is R, the
\* rows of every other repository are unchanged by R's two passes, and the map
\* from identifiers to names holds only names of R's own descriptors, so a files
\* entry of R is never attributed to a name learned from another repository
C35_OnlyOwnRepoRows ==
    /\ [](InPasses => \A id \in DOMAIN id_to_pkg : <<id, id_to_pkg[id]>> \in OwnDescriptors)
    /\ [][C35_Step]_vars

\* pass 2 of the second repository is writing the files of a name that the first
\* repository, indexed before it in the same run, also holds
C35_Witness ==
    /\ pc = "insert" /\ repo = RepoB /\ tx.open /\ line > 2
    /\ todo = {}
    /\ \E d \in db.desc : d.repo = RepoA /\ d.name = id_to_pkg[Entry.id] /\ d.files_done
    /\ \E f \in db.files : f.repo = RepoA /\ f.name = id_to_pkg[Entry.id]


RECURSIVE Within(_, _, _)
\* the edit distance of a and b, counted in characters, is at most k
Within(a, b, k) ==
    IF k < 0 THEN FALSE
    ELSE IF a = <<>> THEN Len(b) <= k
    ELSE IF b = <<>> THEN Len(a) <= k
    ELSE IF Head(a) = Head(b) THEN Within(Tail(a), Tail(b), k)
    ELSE \/ Within(Tail(a), b, k - 1)
         \/ Within(a, Tail(b), k - 1)
         \/ Within(Tail(a), Tail(b), k - 1)

\* the lowercased names of the cache within MAX_DISTANCE of a query word
NamesNear(query_words) ==
    {w \in {Lower(d.name) : d \in db.desc} :
        \E q \in SeqSet(query_words) : Within(w, q, MAX_DISTANCE)}

\* C36: expand_query_words returns the query tokens and, besides them, exactly
\* the lowercased package names of the cache whose edit distance to at least
\* one query token is at most 2
C36_ExpandedIsTokensAndNearNames ==
    SearchAnswered => answer.expanded = SeqSet(AnswerWords) \cup NamesNear(AnswerWords)

\* the query words of the search that has answered are made of one-byte characters
AsciiAnswer == \A i \in 1..Len(AnswerWords) : ByteLen(AnswerWords[i]) = Len(AnswerWords[i])

\* the same for the searches whose words have no character of more than one byte
C36_AsciiExpanded == AsciiAnswer => C36_ExpandedIsTokensAndNearNames

\* search("firefix") has answered and firefox was added to its terms
C36_AsciiWitness ==
    /\ SearchAnswered /\ answer.arg = <<firefix>>
    /\ answer.expanded = {firefix, firefox}


----------------------------------------------------------------------------
(* The commands that call the package engine: install, remove, upgrade, update *)

\* the package names of the model: wex is in a sync repository and not installed,
\* guix is in a sync repository and installed, web is installed from elsewhere
InSync == {wex, guix}
Installed == {guix, web}

\* the package names a command line gives
PkgRequests ==
    {<<>>} \cup {<<n>> : n \in {wex, guix, web}}
           \cup {<<n, m>> : n \in {wex, guix, web}, m \in {wex, guix, web}}

EngineCommands == {"install", "remove", "upgrade", "update"}

\* the steps of a command, in the order of its code
Steps(c, no_file_cache) ==
    CASE c = "install" ->
           <<"require_root", "resolve", "action_root", "conflicts", "trans_init", "add",
             "trans_prepare", "trans_commit">>
      [] c = "remove" ->
           <<"require_root", "resolve", "action_root", "trans_init", "add",
             "trans_prepare", "trans_commit">>
      [] c = "upgrade" ->
           <<"require_root", "action_root", "sync", "trans_init", "sysupgrade",
             "trans_prepare", "trans_commit">>
      [] c = "update" ->
           IF no_file_cache THEN <<"require_root", "refresh_db">>
           ELSE <<"require_root", "refresh_db", "refresh_files", "update_cache">>

\* the step after the one the process is at, "done" after the last
NextStep(e) ==
    LET steps == Steps(e.cmd, e.flag)
        i == CHOOSE k \in 1..Len(steps) : steps[k] = e.at
    IN  IF i = Len(steps) THEN "done" ELSE steps[i + 1]

\* the steps that are a wrapper of auto_repair.rs around an engine operation
Wrappers ==
    {"refresh_db", "refresh_files", "sync", "trans_init", "trans_prepare", "trans_commit"}

\* the engine operation a wrapper calls
Op(at) == IF at \in {"refresh_db", "refresh_files", "sync"} THEN "update" ELSE at

\* the operations that take the engine's lock file
Locks(op) == op \in {"update", "trans_init"}

\* .map_err(|_| Error::Update), TransInit, TransPrepare, TransCommit
WrapperError(op) ==
    CASE op = "update" -> "Update"
      [] op = "trans_init" -> "TransInit"
      [] op = "trans_prepare" -> "TransPrepare"
      [] op = "trans_commit" -> "TransCommit"

\* the errors of the engine the model draws from
AlpmErrors ==
    {"HandleLock", "UnsatisfiedDeps", "Retrieve", "TransNotPrepared", "DiskSpace",
     "PkgNotFound"}

\* what the engine may return: HandleLock when the lock file is there and the
\* operation takes the lock, anything otherwise
EngineResults(e) ==
    IF e.lock /\ Locks(Op(e.at)) THEN {"HandleLock"} ELSE {"Ok"} \cup AlpmErrors

\* the process goes on with the step pos
Goto(e, pos) ==
    [e EXCEPT !.at = pos,
              !.stage = IF pos \in Wrappers THEN "call" ELSE "none",
              !.out = IF pos = "done" THEN "Ok" ELSE @]

\* the process ends with the error err
Exit(e, err) == [e EXCEPT !.at = "done", !.stage = "none", !.out = err]

\* everything but eng is left as it is
OnlyEngine ==
    UNCHANGED <<syncDir, syncs, cache_exists, schema, db, pc, todo, repo, already_cached,
                id_to_pkg, idx, tx, line, ret, warned, parsed, snap, prevRun, after_kill,
                indexed, config, answer, fault, pending, call, cmd>>

\* main.rs: a command of napm is started
RunNapm ==
    /\ eng.at = "none"
    /\ \E c \in EngineCommands :
         \E names \in (IF c \in {"install", "remove"} THEN PkgRequests ELSE {<<>>}) :
           \E no_file_cache \in (IF c = "update" THEN BOOLEAN ELSE {FALSE}) :
             eng' = [eng EXCEPT !.cmd = c, !.names = names, !.flag = no_file_cache,
                                !.at = "require_root", !.out = "running"]
    /\ OnlyEngine

\* every user passes for root
EveryoneIsRoot(e) == TRUE

\* is_root: nix::unistd::Uid::effective().is_root()
is_root(e) == e.root

\* require_root, called by the command and again by the action: Ok for root;
\* otherwise napm_as_root_cmd, the prompt and exec, which replaces the process
\* by the escalated command or fails
RequireRoot ==
    /\ eng.at \in {"require_root", "action_root"}
    /\ IF is_root(eng) THEN eng' = Goto(eng, NextStep(eng))
       ELSE IF ~eng.pe THEN eng' = Exit(eng, "NoPETool")
       ELSE \E reply \in {"yes", "no", "error", "NoShell", "panic"} :
              CASE reply = "no" -> eng' = Exit(eng, "DeniedPE")
                [] reply = "error" -> eng' = Exit(eng, "InternalIO")
                [] reply = "NoShell" -> eng' = Exit(eng, "NoShell")
                [] reply = "panic" -> eng' = Exit(eng, "panic")
                [] reply = "yes" ->
                     \E exec \in {"fails", "root", "refused"} :
                       CASE exec = "fails" -> eng' = Exit(eng, "InternalIO")
                         [] exec = "refused" ->
                              eng' = [Exit(eng, "replaced") EXCEPT !.execs = @ + 1]
                         [] exec = "root" ->
                              eng' = [eng EXCEPT !.root = TRUE, !.at = "require_root",
                                                 !.execs = @ + 1]
    /\ OnlyEngine

\* the package is in a sync repository
InstallFound(name) == name \in InSync

\* install.rs lines 10-22: napm.pkg(name) is Ok and napm.local_pkg(name) is not
InstallValid(name) == name \in InSync /\ name \notin Installed

\* remove.rs line 10: napm.local_pkg(name) is Ok
RemoveValid(name) == name \in Installed

\* the Ok entries of pkgs_res, in the order of the command line
ValidPkgs(e) ==
    IF e.cmd = "install" THEN SelectSeq(e.names, InstallValid)
    ELSE SelectSeq(e.names, RemoveValid)

\* install.rs lines 9-58, remove.rs lines 9-45: the packages are looked up, the
\* user is asked when some are invalid and some are not
Resolve ==
    /\ eng.at = "resolve"
    /\ LET valid == ValidPkgs(eng)
       IN  IF Len(valid) < Len(eng.names) /\ valid # <<>>
           THEN \E reply \in {"yes", "no", "error"} :
                  eng' = IF reply = "no" THEN Exit([eng EXCEPT !.asked = reply], "Stopped")
                         ELSE IF reply = "error"
                         THEN Exit([eng EXCEPT !.asked = reply], "InternalIO")
                         ELSE Goto([eng EXCEPT !.asked = reply, !.given = valid],
                                   NextStep(eng))
           ELSE IF valid = <<>> THEN eng' = Exit(eng, "NoValidPackage")
           ELSE eng' = Goto([eng EXCEPT !.given = valid], NextStep(eng))
    /\ OnlyEngine

\* actions.rs lines 12-32: check_conflicts
Conflicts ==
    /\ eng.at = "conflicts"
    /\ \E found \in BOOLEAN :
         eng' = IF found THEN Exit(eng, "Conflicts") ELSE Goto(eng, NextStep(eng))
    /\ OnlyEngine

\* actions.rs lines 36-47 and 79-90: trans_add_pkg or trans_remove_pkg of each
\* package; lines 62: sync_sysupgrade
AddTargets ==
    /\ eng.at \in {"add", "sysupgrade"}
    /\ \E ok \in BOOLEAN :
         eng' = IF ok THEN Goto(eng, NextStep(eng))
                ELSE Exit(eng, IF eng.at = "sysupgrade" THEN "Alpm"
                               ELSE IF eng.cmd = "install" THEN "TransAddPkg"
                               ELSE "TransRemovePkg")
    /\ OnlyEngine

\* commands/update.rs line 12: napm.update_cache()?
CacheStep ==
    /\ eng.at = "update_cache"
    /\ \E r \in {"Ok", "ExtractArchive"} :
         eng' = IF r = "Ok" THEN Goto(eng, NextStep(eng)) ELSE Exit(eng, r)
    /\ OnlyEngine

\* the first call of a wrapper to the engine
EngineCall ==
    /\ eng.at \in Wrappers /\ eng.stage = "call"
    /\ \E r \in EngineResults(eng) :
         LET called == [eng EXCEPT !.calls = 1, !.repairs = 0, !.first = r,
                                   !.repair = "none",
                                   !.trans = @ \/ eng.at = "trans_init"]
         IN  eng' = IF r = "Ok" THEN Goto(called, NextStep(eng))
                    ELSE [called EXCEPT !.stage = "repair"]
    /\ OnlyEngine

\* what on_alpm_error returns for an error other than HandleLock
RepairResult(error) ==
    CASE error = "UnsatisfiedDeps" -> "UnsatisfiedDeps"
      [] error = "Retrieve" -> "UpgradeRequired"
      [] error = "TransNotPrepared" -> "NothingToDo"
      [] error = "DiskSpace" -> "DiskSpace"
      [] OTHER -> "panic"

\* pgrep -a napm has printed a line of a process other than this one, or
\* pgrep -a pacman has printed a line; Command::output that fails, or prints
\* nothing, goes to the arm of no active process
SeesProcess(e) == e.pgrep /\ (e.others \/ e.pacman)

\* the wrapper calls the engine again whatever on_alpm_error returned
AnyRepairRetries(result) == TRUE

\* self.on_alpm_error(error, data)?: the wrapper goes on only after Ok
RepairRetries(result) == result = "Ok"

\* on_alpm_error, lines 32-98 for HandleLock, and what the wrapper does with
\* the result
Repair ==
    /\ eng.at \in Wrappers /\ eng.stage = "repair"
    /\ \E removed \in BOOLEAN :
         LET result == IF eng.first # "HandleLock" THEN RepairResult(eng.first)
                       ELSE IF SeesProcess(eng) THEN "DbUnlock"
                       ELSE "Ok"
             repaired == [eng EXCEPT !.repair = result, !.repairs = @ + 1,
                                     !.lock = IF eng.first = "HandleLock" /\ result = "Ok"
                                              THEN @ /\ ~removed ELSE @]
         IN  eng' = IF RepairRetries(result) THEN [repaired EXCEPT !.stage = "retry"]
                    ELSE Exit(repaired, result)
    /\ OnlyEngine

\* the second call of a wrapper to the engine, and its map_err
EngineRetry ==
    /\ eng.at \in Wrappers /\ eng.stage = "retry"
    /\ \E r \in EngineResults(eng) :
         LET called == [eng EXCEPT !.calls = @ + 1]
         IN  eng' = IF r = "Ok" THEN Goto(called, NextStep(eng))
                    ELSE Exit(called, WrapperError(Op(eng.at)))
    /\ OnlyEngine

InitEngine ==
    /\ syncDir = [r \in Repos |-> NoArchive]
    /\ syncs = 0
    /\ cache_exists = FALSE
    /\ schema = 0
    /\ db = EmptyRows
    /\ pc = "idle"
    /\ todo = {}
    /\ repo = NoRepo
    /\ already_cached = {}
    /\ id_to_pkg = EmptyMap
    /\ idx = 0
    /\ tx = NoTx
    /\ line = 0
    /\ ret = "none"
    /\ warned = {}
    /\ parsed = 0
    /\ snap = EmptyRows
    /\ prevRun = [valid |-> FALSE, rows |-> EmptyRows]
    /\ after_kill = FALSE
    /\ indexed = EmptyMap
    /\ config = <<RepoA, RepoB>>
    /\ answer = NoAnswer
    /\ fault = "none"
    /\ pending = NoQuery
    /\ call = NoCall
    /\ cmd = NoCommand
    /\ \E root, pe, pgrep, lock, others, pacman \in BOOLEAN :
         eng = [NoEngine EXCEPT !.root = root, !.pe = pe, !.pgrep = pgrep,
                                !.lock = lock, !.others = others, !.pacman = pacman]

NextEngine ==
    \/ RunNapm
    \/ RequireRoot
    \/ Resolve
    \/ Conflicts
    \/ AddTargets
    \/ CacheStep
    \/ EngineCall
    \/ Repair
    \/ EngineRetry

SpecEngine == InitEngine /\ [][NextEngine]_vars


----------------------------------------------------------------------------
(* Properties of the commands that call the package engine *)

\* a step of a wrapper: the second call follows a failed first call and a repair that
\* returned Ok; a second call that fails ends the wrapper with its own error,
\* with no repair and no call after it
C37_Step ==
    /\ eng'.calls # eng.calls => eng'.calls \in {1, eng.calls + 1}
    /\ (eng'.calls = 2 /\ eng.calls = 1) =>
          /\ eng.first \in AlpmErrors
          /\ eng.repair = "Ok" /\ eng.repairs = 1
    /\ (eng.stage = "retry" /\ eng'.at = "done" /\ eng'.out # "Ok") =>
          /\ eng'.out = WrapperError(Op(eng.at))
          /\ eng'.calls = 2 /\ eng'.repairs = 1
          /\ eng'.lock = eng.lock
    /\ eng.at = "done" => eng' = eng

\* C37: each of update, trans_init, trans_prepare and trans_commit calls the
\* engine operation at most twice, the second time only after the first call
\* failed and on_alpm_error returned Ok, and a failure of the second call is
\* returned as Update, TransInit, TransPrepare or TransCommit with no further
\* repair and no further retry
C37_AtMostOneRetry ==
    /\ [](eng.calls <= 2 /\ eng.repairs <= 1)
    /\ [][C37_Step]_vars

\* trans_init met a lock file nobody holds, the repair returned Ok, and the
\* second call failed: the install ends with TransInit
C37_Witness ==
    /\ eng.cmd = "install" /\ eng.at = "done" /\ eng.out = "TransInit"
    /\ eng.calls = 2 /\ eng.repairs = 1
    /\ eng.first = "HandleLock" /\ eng.repair = "Ok"

\* the repair of HandleLock is running
RepairsLock == eng.at \in Wrappers /\ eng.stage = "repair" /\ eng.first = "HandleLock"

\* a step that removes the lock file is made with no other napm process and no
\* pacman process running; the repair of HandleLock with such a process
\* running returns DbUnlock and leaves the lock file
C38_Step ==
    /\ (eng.lock /\ ~eng'.lock) => ~eng.others /\ ~eng.pacman
    /\ (RepairsLock /\ (eng.others \/ eng.pacman)) =>
          /\ eng'.at = "done" /\ eng'.out = "DbUnlock"
          /\ eng'.lock = eng.lock

\* C38: the automatic repair of a HandleLock error removes the engine's lock
\* file only if no napm process other than the current one and no pacman
\* process is running; when such a process is running it returns DbUnlock and
\* leaves the lock file in place
C38_LockKeptWhileInUse == [][C38_Step]_vars

\* the same where pgrep can be run
C38_WhenPgrepRuns == [][eng.pgrep => C38_Step]_vars

\* with pgrep at hand, the repair has refused to remove the lock file of a
\* running pacman
C38_PgrepWitness ==
    /\ eng.pgrep /\ eng.pacman /\ eng.lock
    /\ eng.at = "done" /\ eng.out = "DbUnlock" /\ eng.first = "HandleLock"

\* the steps of a command that follow its require_root
BodySteps ==
    {"resolve", "action_root", "conflicts", "trans_init", "add", "trans_prepare",
     "trans_commit", "sync", "sysupgrade", "refresh_db", "refresh_files", "update_cache"}

\* require_root returns Ok, and the command goes on, only for root
C39_Step ==
    (eng.at \in {"require_root", "action_root"} /\ eng'.at \in BodySteps /\ eng'.at # eng.at)
        => eng.root

\* C39: require_root returns Ok only when the effective user is root; for any
\* other user it returns an error or the process is replaced by the escalated
\* command, so no step of install, remove, upgrade or update after the
\* require_root call runs in a process that is not root
C39_BodyRunsAsRoot ==
    /\ [](eng.at \in BodySteps => eng.root)
    /\ [][C39_Step]_vars

\* a user who is not root has accepted the escalation, and the escalated
\* command has reached the commit of its transaction
C39_Witness == eng.execs = 1 /\ eng.root /\ eng.at = "trans_commit" /\ eng.stage = "call"

\* the step of install.rs that looks the packages up
C40_Step ==
    (eng.cmd = "install" /\ eng.at = "resolve" /\ eng' # eng) =>
        LET valid == SelectSeq(eng.names, LAMBDA n : n \in InSync /\ n \notin Installed)
            invalid == Len(valid) < Len(eng.names)
        IN  /\ valid = <<>> => eng'.at = "done" /\ eng'.out = "NoValidPackage"
            /\ eng'.out = "NoValidPackage" => valid = <<>>
            /\ eng'.out = "Stopped" => invalid /\ valid # <<>> /\ eng'.asked = "no"
            /\ (invalid /\ valid # <<>> /\ eng'.asked = "no") =>
                  eng'.at = "done" /\ eng'.out = "Stopped"
            /\ eng'.at # "done" => eng'.at = "action_root" /\ eng'.given = valid

\* the steps of install that follow the lookup
AfterResolve ==
    {"action_root", "conflicts", "trans_init", "add", "trans_prepare", "trans_commit"}

\* C40: install hands to install_pkgs only packages that were found in a sync
\* repository and are not already installed; it returns NoValidPackage when no
\* such package remains and Stopped when some requested package was invalid
\* and the user declines to continue, and in both cases no transaction is
\* started
C40_OnlyValidInstalled ==
    /\ []((eng.cmd = "install" /\ eng.at \in AfterResolve) =>
            /\ eng.given # <<>>
            /\ \A i \in 1..Len(eng.given) :
                 eng.given[i] \in InSync /\ eng.given[i] \notin Installed)
    /\ []((eng.cmd = "install" /\ eng.out \in {"NoValidPackage", "Stopped"}) =>
            ~eng.trans /\ eng.calls = 0)
    /\ [][C40_Step]_vars

\* install guix wex: guix is installed already, the user goes on, and wex alone
\* has reached trans_init
C40_Witness ==
    /\ eng.cmd = "install" /\ eng.names = <<guix, wex>>
    /\ eng.asked = "yes" /\ eng.given = <<wex>>
    /\ eng.at = "trans_init"

====
